---- MODULE Spec2Model ----
(***************************************************************************)
(* Worklog-Handler: the webhook dispatchers (create / update), the         *)
(* retrying Jira API orchestrator (callJiraApiWithRetry), the token        *)
(* refresher (refreshAccessToken), the secret validator and the action     *)
(* logger, modelled as processes that take one step per awaited call.      *)
(*                                                                         *)
(* Conventions.  A JavaScript string that the code builds from templates   *)
(* is a sequence of template fragments; String.prototype.includes is       *)
(* Includes, evaluated on the markers each fragment's text contains.       *)
(* A missing object key / undefined is Absent (Undefined for numbers).     *)
(* A stored secret or header value is a sequence of characters, so that    *)
(* trim() is computed.                                                     *)
(***************************************************************************)
EXTENDS Integers, Sequences, FiniteSets, TLC

VARIABLES oauthState, plainSecret, secretStore, cred, actionLog, clientConfigured,
          pc, req, loc, hist

vars ==
    <<oauthState, plainSecret, secretStore, cred, actionLog, clientConfigured,
      pc, req, loc, hist>>

----------------------------------------------------------------------------
(* Values *)

Procs == {"p1", "p2"}
SoloProcs == {"p1"}

Users == {"U1", "U2"}

Absent == "absent"
Undefined == -1

Falsy(x) == x = Absent

(* characters of secrets and header values; " " is whitespace *)
SecretK == <<"k">>
SecretKPadded == <<"k", " ">>
HeaderBad == <<"x">>
HeaderPadded == <<" ", "k">>

NoValue == [has |-> FALSE, val |-> <<>>]
Val(s) == [has |-> TRUE, val |-> s]

StoredSecrets == {NoValue, Val(SecretK), Val(SecretKPadded)}
LowerHeaderValues == {NoValue, Val(<<>>), Val(SecretK), Val(HeaderPadded), Val(HeaderBad)}
UpperHeaderValues == {NoValue, Val(SecretK)}

(* upstream (Jira) statuses and identity-provider statuses *)
ApiStatuses == {200, 201, 400, 401, 403, 404, 429, 500}
IdpErrorStatuses == {400, 401, 403, 500}
IdpErrorBodies == {"invalid_grant", "other_error", "not_json", "unreadable"}
NewAccessTokens == {Absent, "AT1", "AT2"}
NewRefreshTokens == {Absent, "RT1"}

IsOk(status) == status >= 200 /\ status <= 299

(* credential records: oauth_token:<accountId> *)
NoRecord ==
    [present |-> FALSE, accessToken |-> Absent, refreshToken |-> Absent,
     cloudId |-> Absent, userInfo |-> Absent, expiresAt |-> Absent,
     timestamp |-> Absent]

CompleteRecord ==
    [present |-> TRUE, accessToken |-> "AT0", refreshToken |-> "RT0",
     cloudId |-> "cloud-1", userInfo |-> "profile-U1", expiresAt |-> "at-authorization",
     timestamp |-> "at-authorization"]

InitialRecords ==
    {NoRecord, CompleteRecord,
     [CompleteRecord EXCEPT !.accessToken = Absent],
     [CompleteRecord EXCEPT !.refreshToken = Absent],
     [CompleteRecord EXCEPT !.cloudId = Absent]}

(* pending-authorization records: oauth_state:<accountId> *)
NoPending == [present |-> FALSE, state |-> <<>>]
Pending(state) == [present |-> TRUE, state |-> state]

----------------------------------------------------------------------------
(* Error messages: sequences of template fragments *)

Markers ==
    {"secret", "payload", "Missing required fields", "re-authenticate", "Not Found",
     "Refresh token invalid"}

FragmentMarkers(f) ==
    CASE f = "Server configuration error: Could not retrieve shared secret." -> {"secret"}
      [] f = "Secret validation failed: Shared secret not configured." -> {"secret"}
      [] f = "Missing required secret header." -> {"secret"}
      [] f = "Invalid secret." -> {"secret"}
      [] f = "Request body is missing." -> {}
      [] f = "Invalid JSON payload in request body." -> {"payload"}
      [] f = "Missing required fields in payload for <verb>: <missing>." -> {"payload", "Missing required fields"}
      [] f = "Could not retrieve user authentication data: " -> {}
      [] f = "Authentication data incomplete for user <id>. Missing: <fields>. Please re-authenticate." -> {"re-authenticate"}
      [] f = "Authentication failed for user <id>. Please re-authenticate the app." -> {"re-authenticate"}
      [] f = "Failed to execute Jira API request: " -> {}
      [] f = "Network or unexpected error occurred while calling Jira API." -> {}
      [] f = "Worklog ID is required for <method> operation on issue <key>." -> {}
      [] f = "Missing required fields (started, timeSpentSeconds) in worklog data" -> {"Missing required fields"}
      [] f = "OAuth client configuration missing." -> {}
      [] f = "Refresh token is missing, user needs to re-authenticate." -> {"re-authenticate"}
      [] f = "Refresh token invalid. Please re-authenticate the app."
           -> {"re-authenticate", "Refresh token invalid"}
      [] f = "Token refresh failed with status: <status>" -> {}
      [] f = "Failed to obtain new access token after refresh." -> {}
      [] f = "Failed to refresh access token." -> {}
      [] f = "Jira API error (Status: <status>)." -> {}
      [] f = "<upstream message>" -> {}
      [] f = "<upstream message: Not Found>" -> {"Not Found"}
      [] f = "<upstream message: payload>" -> {"payload"}
      [] f = "<storage failure>" -> {}
      [] f = "<fetch failure>" -> {}
      [] f = "<JSON syntax error>" -> {}
      [] f = "<TypeError>" -> {}
      [] f = "payload is not defined" -> {"payload"}
      [] OTHER -> {}

Includes(msg, k) == \E i \in 1..Len(msg) : k \in FragmentMarkers(msg[i])

Err(msg) == [msg |-> msg, requiresReAuthentication |-> FALSE]
NoErr == Err(<<>>)

----------------------------------------------------------------------------
(* Requests *)

Bodies ==
    {[kind |-> k, userId |-> Absent, issueKey |-> Absent, started |-> Absent,
      timeSpentSeconds |-> Undefined, worklogId |-> Absent] :
        k \in {"missing", "garbage", "emptyObject"}}
    \cup
    [kind : {"object"}, userId : {Absent, "U1", "U2"}, issueKey : {Absent, "COM-1"},
     started : {Absent, "2024-01-01"}, timeSpentSeconds : {Undefined, 0, 3600},
     worklogId : {Absent, "77"}]

Requests ==
    [kind : {"create", "update"},
     headers : [lower : LowerHeaderValues, upper : UpperHeaderValues],
     body : Bodies]

NoRequest ==
    [kind |-> "none", headers |-> [lower |-> NoValue, upper |-> NoValue],
     body |-> [kind |-> "missing", userId |-> Absent, issueKey |-> Absent,
               started |-> Absent, timeSpentSeconds |-> Undefined, worklogId |-> Absent]]

----------------------------------------------------------------------------
(* Locals of one invocation and its observation record *)

NoLogDetails ==
    [actionType |-> Absent, success |-> FALSE, issueKey |-> Absent,
     worklogId |-> Absent, accountId |-> Absent, message |-> <<>>]

NoApiResult == [call |-> 0, status |-> 0]

InitLoc ==
    [outputKey |-> "error-internal", logDetails |-> NoLogDetails,
     payloadParsed |-> FALSE, userData |-> NoRecord,
     currentAccessToken |-> Absent, apiResult |-> NoApiResult,
     newAccessToken |-> Absent, newRefreshToken |-> Absent,
     existingUserData |-> NoRecord, logEntry |-> NoLogDetails,
     currentLogs |-> <<>>]

InitHist ==
    [secretReads |-> 0, credReads |-> 0, credWrites |-> 0, apiCalls |-> 0,
     apiTokens |-> <<>>, apiStatuses |-> <<>>, refreshCalls |-> 0,
     tokenRequests |-> 0, refreshOutcome |-> "none", persistedAtRetry |-> FALSE,
     orchestrator |-> "none", orchestratorResult |-> NoApiResult,
     orchestratorError |-> NoErr, logCalls |-> 0, logWrites |-> 0,
     secretAccepted |-> FALSE, bodyParsed |-> FALSE, credLoaded |-> FALSE,
     idpStatus |-> 0, idpBody |-> "none", refreshError |-> NoErr,
     secretError |-> NoErr, responseId |-> "none",
     apiRequests |-> <<>>, statusCode |-> 0,
     returnValue |-> [outputKey |-> "none"],
     refreshTokenSent |-> Absent, refreshTokenStored |-> Absent, issue |-> 0,
     result |-> "none", final |-> "none"]

----------------------------------------------------------------------------
(* secureUtils.js *)

RECURSIVE TrimLeft(_)
TrimLeft(s) == IF s # <<>> /\ Head(s) = " " THEN TrimLeft(Tail(s)) ELSE s

RECURSIVE TrimRight(_)
TrimRight(s) ==
    IF s # <<>> /\ s[Len(s)] = " " THEN TrimRight(SubSeq(s, 1, Len(s) - 1)) ELSE s

Trim(s) == TrimRight(TrimLeft(s))

(* headers['x-zapier-secret'] || headers['X-Zapier-Secret'] *)
HeaderValue(headers) ==
    IF headers.lower.has /\ headers.lower.val # <<>> THEN headers.lower ELSE headers.upper

(* variant: the values are compared as received, without trim() *)
validateZapierSecretUntrimmed(headers, expected) ==
    LET received == HeaderValue(headers) IN
    IF ~expected.has
    THEN Err(<<"Secret validation failed: Shared secret not configured.">>)
    ELSE IF ~received.has \/ received.val = <<>>
    THEN Err(<<"Missing required secret header.">>)
    ELSE IF received.val # expected.val
    THEN Err(<<"Invalid secret.">>)
    ELSE NoErr

(* the error validateZapierSecret throws once getSecret has returned       *)
(* `expected`, or NoErr when it returns normally                           *)
validateZapierSecret(headers, expected) ==
    LET received == HeaderValue(headers) IN
    IF ~expected.has
    THEN Err(<<"Secret validation failed: Shared secret not configured.">>)
    ELSE IF ~received.has \/ received.val = <<>>
    THEN Err(<<"Missing required secret header.">>)
    ELSE IF Trim(received.val) # Trim(expected.val)
    THEN Err(<<"Invalid secret.">>)
    ELSE NoErr

----------------------------------------------------------------------------
(* worklogCreateHandler.js / worklogUpdateHandler.js: synchronous parts *)

(* the error parseRequestBody throws, or NoErr when it returns the payload *)
parseRequestBody(body) ==
    IF body.kind = "missing" THEN Err(<<"Request body is missing.">>)
    ELSE IF body.kind \in {"garbage", "emptyObject"}
    THEN Err(<<"Invalid JSON payload in request body.">>)
    ELSE NoErr

MissingRequiredFields(kind, body) ==
    \/ Falsy(body.userId)
    \/ Falsy(body.issueKey)
    \/ Falsy(body.started)
    \/ body.timeSpentSeconds = Undefined
    \/ (kind = "update" /\ Falsy(body.worklogId))

(* logDetails = { actionType, success: false, issueKey, [worklogId,] accountId } *)
InitialLogDetails(kind, body) ==
    [actionType |-> kind, success |-> FALSE, issueKey |-> body.issueKey,
     worklogId |-> IF kind = "update" THEN body.worklogId ELSE Absent,
     accountId |-> body.userId, message |-> <<>>]

(* variant: the chain lacks the "re-authenticate" test *)
CatchOutputKeyWithoutReauth(kind, outputKey, err) ==
    IF Includes(err.msg, "secret") THEN "error-unauthorized"
    ELSE IF Includes(err.msg, "payload") \/ Includes(err.msg, "Missing required fields")
    THEN "error-bad-request"
    ELSE IF kind = "update" /\ Includes(err.msg, "Not Found") THEN "error-not-found"
    ELSE outputKey

(* the chain of message tests at the head of the catch block *)
CatchOutputKey(kind, outputKey, err) ==
    IF Includes(err.msg, "secret") THEN "error-unauthorized"
    ELSE IF Includes(err.msg, "payload") \/ Includes(err.msg, "Missing required fields")
    THEN "error-bad-request"
    ELSE IF Includes(err.msg, "re-authenticate") THEN "error-unauthorized"
    ELSE IF kind = "update" /\ Includes(err.msg, "Not Found") THEN "error-not-found"
    ELSE outputKey

Or(a, b) == IF Falsy(a) THEN b ELSE a

(* The create handler declares `payload` with const inside the try block,  *)
(* so `payload?.issueKey` in its catch block is a ReferenceError whenever   *)
(* the || chain reaches it.  The update handler declares it outside.        *)
CatchThrowsReferenceError(kind, logDetails) ==
    kind = "create" /\ (Falsy(logDetails.issueKey) \/ Falsy(logDetails.accountId))

(* the catch block up to `await logAction(logDetails)` *)
HandlerCatch(kind, body, l, err) ==
    LET ld == l.logDetails
        payloadIssueKey == IF l.payloadParsed THEN body.issueKey ELSE Absent
        payloadWorklogId == IF l.payloadParsed THEN body.worklogId ELSE Absent
        payloadUserId == IF l.payloadParsed THEN body.userId ELSE Absent
        key == CatchOutputKey(kind, l.outputKey, err)
        ld2 == [actionType |-> Or(ld.actionType, kind),
                success |-> FALSE,
                issueKey |-> Or(Or(ld.issueKey, payloadIssueKey), "Unknown"),
                worklogId |-> IF kind = "update"
                              THEN Or(Or(ld.worklogId, payloadWorklogId), "Unknown")
                              ELSE ld.worklogId,
                accountId |-> Or(Or(ld.accountId, payloadUserId), "Unknown"),
                message |-> IF ld.message = <<>> THEN err.msg ELSE ld.message]
    IN  IF CatchThrowsReferenceError(kind, ld)
        THEN [thrown |-> TRUE,
              loc |-> [l EXCEPT !.outputKey = key,
                                !.logDetails = [ld EXCEPT !.actionType = Or(ld.actionType, kind),
                                                          !.success = FALSE]]]
        ELSE [thrown |-> FALSE,
              loc |-> [l EXCEPT !.outputKey = key, !.logDetails = ld2]]

(* variant: the entry does not copy details.success *)
LogEntryWithoutSuccess(details) ==
    [actionType |-> details.actionType, success |-> FALSE,
     issueKey |-> details.issueKey,
     worklogId |-> Or(details.worklogId, "N/A"),
     accountId |-> Or(details.accountId, "Unknown"),
     message |-> IF details.message = <<>>
                 THEN (IF details.success THEN <<"Success">> ELSE <<"Failure">>)
                 ELSE details.message]

(* actionLogger.js: the entry logAction builds before its first await *)
LogEntry(details) ==
    [actionType |-> details.actionType, success |-> details.success,
     issueKey |-> details.issueKey,
     worklogId |-> Or(details.worklogId, "N/A"),
     accountId |-> Or(details.accountId, "Unknown"),
     message |-> IF details.message = <<>>
                 THEN (IF details.success THEN <<"Success">> ELSE <<"Failure">>)
                 ELSE details.message]

MAX_LOG_ENTRIES == 50

(* variant: the new entry is pushed at the end *)
TrimmedLogAppending(entry, currentLogs) ==
    LET added == currentLogs \o <<entry>>
    IN  IF Len(added) > MAX_LOG_ENTRIES THEN SubSeq(added, 1, MAX_LOG_ENTRIES) ELSE added

(* variant: the trim keeps the last MAX_LOG_ENTRIES entries, slice(-MAX_LOG_ENTRIES) *)
TrimmedLogKeepingLast(entry, currentLogs) ==
    LET added == <<entry>> \o currentLogs
    IN  IF Len(added) > MAX_LOG_ENTRIES
        THEN SubSeq(added, Len(added) - MAX_LOG_ENTRIES + 1, Len(added))
        ELSE added

(* currentLogs.unshift(logEntry); slice(0, MAX_LOG_ENTRIES) *)
TrimmedLog(entry, currentLogs) ==
    LET added == <<entry>> \o currentLogs
    IN  IF Len(added) > MAX_LOG_ENTRIES THEN SubSeq(added, 1, MAX_LOG_ENTRIES) ELSE added

----------------------------------------------------------------------------
(* Control transfer *)

Goto(p, next, l, h) ==
    /\ pc' = [pc EXCEPT ![p] = next]
    /\ loc' = [loc EXCEPT ![p] = l]
    /\ hist' = [hist EXCEPT ![p] = h]

(* an error reaches the handler's catch block *)
Throw(p, l, h, err) ==
    LET c == HandlerCatch(req[p].kind, req[p].body, l, err)
    IN  IF c.thrown
        THEN Goto(p, "done", c.loc, [h EXCEPT !.result = "thrown"])
        ELSE Goto(p, "logGet",
                  [c.loc EXCEPT !.logEntry = LogEntry(c.loc.logDetails)],
                  [h EXCEPT !.logCalls = @ + 1])

(* variant: the returned object also carries the logged message *)
ReturnValueWithMessage(l) == [outputKey |-> l.outputKey, error |-> l.logDetails.message]

(* the object the handler returns: { outputKey } *)
ReturnValue(l) == [outputKey |-> l.outputKey]

(* return { outputKey } *)
Return(p, l, h) ==
    Goto(p, "done", l,
         [h EXCEPT !.result = "returned", !.final = l.outputKey,
                   !.returnValue = ReturnValue(l)])

(* variant: the catch block of logAction rethrows *)
logActionCatchRethrowing(p, l, h) ==
    Goto(p, "done", l, [h EXCEPT !.result = "thrown"])

(* actionLogger.js: the catch block of logAction only reports the error;   *)
(* logAction resolves and the handler goes on to `return { outputKey }`    *)
logActionCatch(p, l, h) == Return(p, l, h)

----------------------------------------------------------------------------
(* jiraApiHelper.js: synchronous parts *)

ApiMethod(kind) == IF kind = "create" THEN "POST" ELSE IF kind = "update" THEN "PUT" ELSE "DELETE"

(* variant: timeSpentSeconds is tested for truthiness *)
callJiraApiArgErrorRejectingZero(method, hasData, started, timeSpentSeconds, worklogId) ==
    IF method \in {"PUT", "DELETE"} /\ Falsy(worklogId)
    THEN Err(<<"Worklog ID is required for <method> operation on issue <key>.">>)
    ELSE IF method \in {"POST", "PUT"}
            /\ (~hasData \/ timeSpentSeconds = Undefined \/ timeSpentSeconds = 0
                \/ Falsy(started))
    THEN Err(<<"Missing required fields (started, timeSpentSeconds) in worklog data">>)
    ELSE NoErr

(* the error callJiraApi throws before it issues the request, or NoErr *)
callJiraApiArgError(method, hasData, started, timeSpentSeconds, worklogId) ==
    IF method \in {"PUT", "DELETE"} /\ Falsy(worklogId)
    THEN Err(<<"Worklog ID is required for <method> operation on issue <key>.">>)
    ELSE IF method \in {"POST", "PUT"}
            /\ (~hasData \/ timeSpentSeconds = Undefined \/ Falsy(started))
    THEN Err(<<"Missing required fields (started, timeSpentSeconds) in worklog data">>)
    ELSE NoErr

(* variant: the check forgets cloudId *)
CredentialIncompleteIgnoringCloudId(userData) ==
    \/ ~userData.present
    \/ Falsy(userData.accessToken)
    \/ Falsy(userData.refreshToken)

(* !userData || !userData.accessToken || !userData.refreshToken || !userData.cloudId *)
CredentialIncomplete(userData) ==
    \/ ~userData.present
    \/ Falsy(userData.accessToken)
    \/ Falsy(userData.refreshToken)
    \/ Falsy(userData.cloudId)

(* the first try/catch of callJiraApiWithRetry *)
LoadError(inner) == Err(<<"Could not retrieve user authentication data: ">> \o inner.msg)

AuthDataIncomplete ==
    LoadError(Err(<<"Authentication data incomplete for user <id>. Missing: <fields>. Please re-authenticate.">>))

(* variant: the outer catch throws one fixed error *)
OrchestratorCatchGeneric(error) == Err(<<"Failed to execute Jira API request: ">>)

(* the outer catch of callJiraApiWithRetry *)
OrchestratorCatch(error) ==
    IF error.requiresReAuthentication \/ Includes(error.msg, "re-authenticate")
    THEN Err(<<"Authentication failed for user <id>. Please re-authenticate the app.">>)
    ELSE Err(<<"Failed to execute Jira API request: ">> \o error.msg)

(* refreshAccessToken: the error for a non-success provider response *)
ReauthError ==
    [msg |-> <<"Refresh token invalid. Please re-authenticate the app.">>,
     requiresReAuthentication |-> TRUE]

GenericRefreshError == Err(<<"Failed to refresh access token.">>)

(* the catch block of refreshAccessToken *)
RefreshCatch(error) == IF error.requiresReAuthentication THEN error ELSE GenericRefreshError

(* variant: only status 400 is inspected for invalid_grant *)
RefreshResponseErrorOnly400(status, body) ==
    IF status = 400 /\ body = "invalid_grant"
    THEN RefreshCatch(ReauthError)
    ELSE RefreshCatch(Err(<<"Token refresh failed with status: <status>">>))

RefreshResponseError(status, body) ==
    IF status \in {403, 400} /\ body = "invalid_grant"
    THEN RefreshCatch(ReauthError)
    ELSE RefreshCatch(Err(<<"Token refresh failed with status: <status>">>))

(* variant: the merge keeps the access token already stored *)
UpdatedUserDataStaleAccessToken(existing, newAccessToken, newRefreshToken) ==
    [existing EXCEPT !.present = TRUE,
                     !.refreshToken = IF Falsy(newRefreshToken) THEN @ ELSE newRefreshToken,
                     !.expiresAt = "at-refresh",
                     !.timestamp = "at-refresh"]

(* variant: the merge writes refresh_token even when the response has none *)
UpdatedUserDataOverwritingRefreshToken(existing, newAccessToken, newRefreshToken) ==
    [existing EXCEPT !.present = TRUE,
                     !.accessToken = newAccessToken,
                     !.refreshToken = newRefreshToken,
                     !.expiresAt = "at-refresh",
                     !.timestamp = "at-refresh"]

(* updatedUserData *)
UpdatedUserData(existing, newAccessToken, newRefreshToken) ==
    [existing EXCEPT !.present = TRUE,
                     !.accessToken = newAccessToken,
                     !.refreshToken = IF Falsy(newRefreshToken) THEN @ ELSE newRefreshToken,
                     !.expiresAt = "at-refresh",
                     !.timestamp = "at-refresh"]

----------------------------------------------------------------------------
(* Initial states: a store as an earlier authorization, refresh or admin   *)
(* action left it, no invocation running                                   *)

Init ==
    /\ oauthState = [u \in Users |-> NoPending]
    /\ plainSecret = NoValue
    /\ secretStore \in StoredSecrets
    /\ cred \in {[u \in Users |-> IF u = "U1" THEN r ELSE NoRecord] : r \in InitialRecords}
    /\ actionLog = <<>>
    /\ clientConfigured \in BOOLEAN
    /\ pc = [p \in Procs |-> "idle"]
    /\ req = [p \in Procs |-> NoRequest]
    /\ loc = [p \in Procs |-> InitLoc]
    /\ hist = [p \in Procs |-> InitHist]

----------------------------------------------------------------------------
(* Actions: one per awaited call of an invocation *)

(* the web trigger invokes handler(req); it runs to `await storage.getSecret` *)
Invoke(p) ==
    /\ pc[p] = "idle"
    /\ \A q \in Procs : pc[q] = "idle"
    /\ \E r \in Requests :
        /\ req' = [req EXCEPT ![p] = r]
        /\ pc' = [pc EXCEPT ![p] = "getSecret"]
    /\ UNCHANGED <<oauthState, plainSecret, secretStore, cred, actionLog, clientConfigured, loc, hist>>

(* an error leaves callJiraApiWithRetry through its outer catch *)
OrchestratorThrow(p, l, h, error) ==
    LET e == OrchestratorCatch(error)
    IN  Throw(p, l, [h EXCEPT !.orchestrator = "threw", !.orchestratorError = e], e)

(* validateZapierSecret after getSecret settles, parseRequestBody, the     *)
(* required-field check, and callJiraApiWithRetry up to storage.get        *)
GetSecret(p) ==
    /\ pc[p] = "getSecret"
    /\ \E fails \in BOOLEAN :
        LET r == req[p]
            secretErr == IF fails
                         THEN Err(<<"Server configuration error: Could not retrieve shared secret.">>)
                         ELSE validateZapierSecret(r.headers, secretStore)
            h == [hist[p] EXCEPT !.secretReads = @ + 1, !.secretError = secretErr]
            parseErr == parseRequestBody(r.body)
            hParsed == [h EXCEPT !.secretAccepted = TRUE, !.bodyParsed = TRUE]
            lParsed == [loc[p] EXCEPT !.payloadParsed = TRUE,
                                      !.logDetails = InitialLogDetails(r.kind, r.body)]
        IN  IF secretErr # NoErr THEN Throw(p, loc[p], h, secretErr)
            ELSE IF parseErr # NoErr THEN Throw(p, loc[p], hParsed, parseErr)
            ELSE IF MissingRequiredFields(r.kind, r.body)
            THEN Throw(p,
                       [lParsed EXCEPT !.outputKey = "error-bad-request",
                                       !.logDetails.message = <<"Missing required fields: <missing>.">>],
                       hParsed,
                       Err(<<"Missing required fields in payload for <verb>: <missing>.">>))
            ELSE Goto(p, "loadCred", lParsed, hParsed)
    /\ UNCHANGED <<oauthState, plainSecret, secretStore, cred, actionLog, clientConfigured, req>>

(* callJiraApi up to its fetch, against the store as it is when the call   *)
(* is made; an argument error leaves through the orchestrator's outer catch *)
BeginApiCall(p, l, h, next, store) ==
    LET b == req[p].body
        argErr == callJiraApiArgError(ApiMethod(req[p].kind), TRUE, b.started,
                                      b.timeSpentSeconds,
                                      IF req[p].kind = "create" THEN Absent ELSE b.worklogId)
        issued == [h EXCEPT !.apiCalls = @ + 1,
                            !.apiTokens = Append(@, l.currentAccessToken),
                            !.persistedAtRetry =
                                (next = "apiCall2"
                                 /\ store[b.userId].accessToken = l.currentAccessToken)]
    IN  IF argErr # NoErr THEN OrchestratorThrow(p, l, h, argErr)
        ELSE Goto(p, next, l, issued)

(* userData = await storage.get(`oauth_token:${accountId}`) and the check  *)
LoadCred(p) ==
    /\ pc[p] = "loadCred"
    /\ \E fails \in BOOLEAN :
        LET h == [hist[p] EXCEPT !.credReads = @ + 1]
            userData == cred[req[p].body.userId]
        IN  IF fails
            THEN LET e == LoadError(Err(<<"<storage failure>">>))
                 IN  Throw(p, loc[p],
                           [h EXCEPT !.orchestrator = "threw", !.orchestratorError = e], e)
            ELSE IF CredentialIncomplete(userData)
            THEN Throw(p, [loc[p] EXCEPT !.userData = userData],
                       [h EXCEPT !.credLoaded = TRUE,
                                 !.orchestrator = "threw",
                                 !.orchestratorError = AuthDataIncomplete],
                       AuthDataIncomplete)
            ELSE BeginApiCall(p,
                              [loc[p] EXCEPT !.userData = userData,
                                             !.currentAccessToken = userData.accessToken],
                              [h EXCEPT !.credLoaded = TRUE], "apiCall1", cred)
    /\ UNCHANGED <<oauthState, plainSecret, secretStore, cred, actionLog, clientConfigured, req>>

(* a failure inside refreshAccessToken, through its catch block when it    *)
(* is raised inside the try, and then the orchestrator's two catch blocks  *)
RefreshFails(p, l, h, e) ==
    OrchestratorThrow(p, l,
        [h EXCEPT !.refreshOutcome = IF e.requiresReAuthentication THEN "reauth" ELSE "generic",
                  !.refreshError = e],
        e)

(* variant: the refresh token argument is not tested before the request *)
BeginRefreshWithoutTokenCheck(p, accountId, l, h) ==
    LET h1 == [h EXCEPT !.refreshCalls = @ + 1,
                        !.refreshTokenSent = l.userData.refreshToken,
                        !.refreshTokenStored = cred[accountId].refreshToken]
    IN  IF ~clientConfigured
        THEN RefreshFails(p, l, h1, Err(<<"OAuth client configuration missing.">>))
        ELSE Goto(p, "refreshFetch", l, h1)

(* refreshAccessToken(accountId, userData.refreshToken) up to its fetch *)
BeginRefresh(p, accountId, l, h) ==
    LET h1 == [h EXCEPT !.refreshCalls = @ + 1,
                        !.refreshTokenSent = l.userData.refreshToken,
                        !.refreshTokenStored = cred[accountId].refreshToken]
    IN  IF ~clientConfigured
        THEN RefreshFails(p, l, h1, Err(<<"OAuth client configuration missing.">>))
        ELSE IF Falsy(l.userData.refreshToken)
        THEN RefreshFails(p, l, h1,
                 Err(<<"Refresh token is missing, user needs to re-authenticate.">>))
        ELSE Goto(p, "refreshFetch", l, h1)

(* variant: every 4xx status is taken for an expired token *)
NeedsRefreshOnAnyClientError(status) == status >= 400 /\ status <= 499

(* apiResult.status === 401 || apiResult.status === 403 *)
NeedsRefresh(status) == status = 401 \/ status = 403

(* variant: a response that is still 401/403 starts another refresh *)
OrchestratorReturnRefreshingAgain(p, l, h) ==
    IF NeedsRefresh(l.apiResult.status)
    THEN BeginRefresh(p, req[p].body.userId, l, h)
    ELSE Goto(p, "readBody", l,
              [h EXCEPT !.orchestrator = "returned", !.orchestratorResult = l.apiResult])

(* callJiraApiWithRetry returns apiResult *)
OrchestratorReturn(p, l, h) ==
    Goto(p, "readBody", l,
         [h EXCEPT !.orchestrator = "returned", !.orchestratorResult = l.apiResult])

(* the initial callJiraApi fetch settles *)
ApiCall1(p) ==
    /\ pc[p] = "apiCall1"
    /\ \/ OrchestratorThrow(p, loc[p], hist[p],
              Err(<<"Network or unexpected error occurred while calling Jira API.">>))
       \/ \E s \in ApiStatuses :
            LET l == [loc[p] EXCEPT !.apiResult = [call |-> 1, status |-> s]]
                h == [hist[p] EXCEPT !.apiStatuses = Append(@, s)]
            IN  IF NeedsRefresh(s)
                THEN BeginRefresh(p, req[p].body.userId, l, h)
                ELSE OrchestratorReturn(p, l, h)
    /\ UNCHANGED <<oauthState, plainSecret, secretStore, cred, actionLog, clientConfigured, req>>

(* the provider rotates refresh tokens: every token response that carries  *)
(* a refresh_token carries one it has not issued before                    *)
TokensIssued ==
    Cardinality({q \in Procs : "issue" \in DOMAIN hist[q] /\ hist[q].issue > 0})

IssuedRefreshToken(n) == IF n = 1 THEN "RT1" ELSE "RT2"

(* the token-exchange fetch settles and its body is read *)
RefreshFetch(p) ==
    /\ pc[p] = "refreshFetch"
    /\ LET h == [hist[p] EXCEPT !.tokenRequests = @ + 1]
       IN  \/ RefreshFails(p, loc[p], [h EXCEPT !.idpStatus = 0, !.idpBody = "no response"],
                           RefreshCatch(Err(<<"<fetch failure>">>)))
           \/ \E s \in IdpErrorStatuses, b \in IdpErrorBodies :
                RefreshFails(p, loc[p], [h EXCEPT !.idpStatus = s, !.idpBody = b],
                             RefreshResponseError(s, b))
           \/ \E at \in NewAccessTokens, rt \in {Absent, IssuedRefreshToken(TokensIssued + 1)} :
                LET h1 == [h EXCEPT !.idpStatus = 200, !.idpBody = "token data",
                                    !.issue = TokensIssued + 1]
                IN  IF Falsy(at)
                    THEN RefreshFails(p, loc[p], h1,
                             RefreshCatch(Err(<<"Failed to obtain new access token after refresh.">>)))
                    ELSE Goto(p, "refreshGet",
                              [loc[p] EXCEPT !.newAccessToken = at, !.newRefreshToken = rt], h1)
    /\ UNCHANGED <<oauthState, plainSecret, secretStore, cred, actionLog, clientConfigured, req>>

(* existingUserData = await storage.get(storageKey) || {} *)
RefreshGet(p) ==
    /\ pc[p] = "refreshGet"
    /\ LET h == [hist[p] EXCEPT !.credReads = @ + 1]
       IN  \/ RefreshFails(p, loc[p], h, RefreshCatch(Err(<<"<storage failure>">>)))
           \/ Goto(p, "refreshSet",
                   [loc[p] EXCEPT !.existingUserData = cred[req[p].body.userId]], h)
    /\ UNCHANGED <<oauthState, plainSecret, secretStore, cred, actionLog, clientConfigured, req>>

(* await storage.set(storageKey, updatedUserData); return newAccessToken;  *)
(* then the retried callJiraApi up to its fetch                            *)
RefreshSet(p) ==
    /\ pc[p] = "refreshSet"
    /\ \/ /\ RefreshFails(p, loc[p], hist[p], RefreshCatch(Err(<<"<storage failure>">>)))
          /\ UNCHANGED cred
       \/ /\ cred' = [cred EXCEPT ![req[p].body.userId] =
                        UpdatedUserData(loc[p].existingUserData, loc[p].newAccessToken,
                                        loc[p].newRefreshToken)]
          /\ BeginApiCall(p,
                          [loc[p] EXCEPT !.currentAccessToken = loc[p].newAccessToken],
                          [hist[p] EXCEPT !.credWrites = @ + 1, !.refreshOutcome = "ok"],
                          "apiCall2", cred')
    /\ UNCHANGED <<oauthState, plainSecret, secretStore, actionLog, clientConfigured, req>>

(* the retried callJiraApi fetch settles *)
ApiCall2(p) ==
    /\ pc[p] = "apiCall2"
    /\ \/ OrchestratorThrow(p, loc[p], hist[p],
              Err(<<"Network or unexpected error occurred while calling Jira API.">>))
       \/ \E s \in ApiStatuses :
            OrchestratorReturn(p,
                [loc[p] EXCEPT !.apiResult = [call |-> 2, status |-> s]],
                [hist[p] EXCEPT !.apiStatuses = Append(@, s)])
    /\ UNCHANGED <<oauthState, plainSecret, secretStore, cred, actionLog, clientConfigured, req>>

----------------------------------------------------------------------------
(* The handlers after callJiraApiWithRetry has returned *)

(* the status mapping of the `!apiResult.response.ok` branch *)
StatusOutputKey(kind, status) ==
    IF status = 400 THEN "error-bad-request"
    ELSE IF status = 401 THEN "error-unauthorized"
    ELSE IF status = 403 THEN "error-forbidden"
    ELSE IF kind = "update" /\ status = 404 THEN "error-not-found"
    ELSE "error-jira-api"

SuccessKey(kind) == IF kind = "create" THEN "success-created" ELSE "success-updated"

(* errorMessage: errorMessages.join(', ') || JSON.stringify(errors) || the default *)
JiraErrorMessages ==
    {<<"Jira API error (Status: <status>).">>, <<"<upstream message>">>,
     <<"<upstream message: Not Found>">>, <<"<upstream message: payload>">>}

ResponseIds == {"999", Absent}

(* variant: the create handler does not copy responseData.id *)
SuccessLogDetailsWithoutId(kind, ld, id) ==
    [ld EXCEPT !.success = TRUE,
               !.message = <<"Worklog <id> <verb> successfully.">>]

(* logDetails.success = true; [logDetails.worklogId = responseData.id;]    *)
(* logDetails.message = `Worklog ${responseData.id} <verb> successfully.`  *)
SuccessLogDetails(kind, ld, id) ==
    [ld EXCEPT !.success = TRUE,
               !.worklogId = IF kind = "create" THEN id ELSE @,
               !.message = <<"Worklog <id> <verb> successfully.">>]

(* await apiResult.response.text() / .json() settles, up to `await logAction` *)
ReadBody(p) ==
    /\ pc[p] = "readBody"
    /\ LET kind == req[p].kind
           status == loc[p].apiResult.status
       IN  IF ~IsOk(status)
           THEN \/ Throw(p, loc[p], hist[p], Err(<<"<fetch failure>">>))
                \/ \E m \in JiraErrorMessages :
                     Throw(p,
                           [loc[p] EXCEPT
                               !.outputKey = StatusOutputKey(kind, status),
                               !.logDetails.message = <<"Jira API Error: <status> - ">> \o m],
                           hist[p], Err(m))
           ELSE \/ Throw(p, loc[p], hist[p], Err(<<"<JSON syntax error>">>))
                \/ Throw(p, loc[p], hist[p], Err(<<"<TypeError>">>))
                \/ \E id \in ResponseIds :
                     LET ld == SuccessLogDetails(kind, loc[p].logDetails, id)
                     IN  Goto(p, "logGet",
                              [loc[p] EXCEPT !.outputKey = SuccessKey(kind),
                                             !.logDetails = ld,
                                             !.logEntry = LogEntry(ld)],
                              [hist[p] EXCEPT !.logCalls = @ + 1, !.responseId = id])
    /\ UNCHANGED <<oauthState, plainSecret, secretStore, cred, actionLog, clientConfigured, req>>

(* logAction: currentLogs = await storage.get(LOG_STORAGE_KEY); a failure  *)
(* is swallowed and the handler returns                                    *)
LogGet(p) ==
    /\ pc[p] = "logGet"
    /\ \/ logActionCatch(p, loc[p], hist[p])
       \/ Goto(p, "logSet", [loc[p] EXCEPT !.currentLogs = actionLog], hist[p])
    /\ UNCHANGED <<oauthState, plainSecret, secretStore, cred, actionLog, clientConfigured, req>>

(* logAction: await storage.set(LOG_STORAGE_KEY, currentLogs) *)
LogSet(p) ==
    /\ pc[p] = "logSet"
    /\ \/ /\ logActionCatch(p, loc[p], hist[p])
          /\ UNCHANGED actionLog
       \/ /\ actionLog' = TrimmedLog(loc[p].logEntry, loc[p].currentLogs)
          /\ Return(p, loc[p], [hist[p] EXCEPT !.logWrites = @ + 1])
    /\ UNCHANGED <<oauthState, plainSecret, secretStore, cred, clientConfigured, req>>

----------------------------------------------------------------------------
(* One dispatcher invocation at a time *)

Next ==
    \E p \in SoloProcs :
        \/ Invoke(p)
        \/ GetSecret(p)
        \/ LoadCred(p)
        \/ ApiCall1(p)
        \/ RefreshFetch(p)
        \/ RefreshGet(p)
        \/ RefreshSet(p)
        \/ ApiCall2(p)
        \/ ReadBody(p)
        \/ LogGet(p)
        \/ LogSet(p)

Spec == Init /\ [][Next]_vars

----------------------------------------------------------------------------
(* The action logger on its own: logAction called again and again, one     *)
(* call at a time, against a stored log of any length up to the maximum    *)

MaxLogCalls == 3

(* details objects as the handlers pass them *)
LogDetailsInputs ==
    {[actionType |-> "create", success |-> TRUE, issueKey |-> "COM-1",
      worklogId |-> "999", accountId |-> "U1",
      message |-> <<"Worklog <id> <verb> successfully.">>],
     [actionType |-> "update", success |-> FALSE, issueKey |-> "COM-1",
      worklogId |-> "77", accountId |-> "U1", message |-> <<>>],
     [actionType |-> "create", success |-> FALSE, issueKey |-> "COM-1",
      worklogId |-> Absent, accountId |-> Absent,
      message |-> <<"Missing required fields: <missing>.">>]}

(* an entry an earlier call stored *)
OldLogEntry ==
    LogEntry([actionType |-> "update", success |-> TRUE, issueKey |-> "COM-2",
              worklogId |-> "55", accountId |-> "U2",
              message |-> <<"Worklog <id> <verb> successfully.">>])

(* the i-th stored entry, newest first: each is the entry of another worklog *)
StoredEntry(i) == [OldLogEntry EXCEPT !.worklogId = ToString(54 + i)]

(* the logs earlier calls can have left under LOG_STORAGE_KEY *)
StoredLogs == {[i \in 1..n |-> StoredEntry(i)] : n \in 0..MAX_LOG_ENTRIES}

LogInit ==
    /\ oauthState = [u \in Users |-> NoPending]
    /\ plainSecret = NoValue
    /\ secretStore = NoValue
    /\ cred = [u \in Users |-> NoRecord]
    /\ actionLog \in StoredLogs
    /\ clientConfigured = TRUE
    /\ pc = [p \in Procs |-> "idle"]
    /\ req = [p \in Procs |-> NoRequest]
    /\ loc = [p \in Procs |-> InitLoc]
    /\ hist = [p \in Procs |-> InitHist]

(* logAction(details) up to `await storage.get(LOG_STORAGE_KEY)` *)
LogAction(p) ==
    /\ pc[p] \in {"idle", "done"}
    /\ hist[p].logCalls < MaxLogCalls
    /\ \E d \in LogDetailsInputs :
         Goto(p, "logGet", [loc[p] EXCEPT !.logDetails = d, !.logEntry = LogEntry(d)],
              [hist[p] EXCEPT !.logCalls = @ + 1])
    /\ UNCHANGED <<oauthState, plainSecret, secretStore, cred, actionLog, clientConfigured, req>>

LogNext ==
    \E p \in SoloProcs :
        \/ LogAction(p)
        \/ LogGet(p)
        \/ LogSet(p)

LogSpec == LogInit /\ [][LogNext]_vars

----------------------------------------------------------------------------
(* state.js: handleWorklogAction, the single web trigger handler that      *)
(* dispatches on payload.event, with its own refreshAccessToken and        *)
(* callJiraApi.  It validates no secret and calls no logger; it returns    *)
(* { statusCode, body } (hist.statusCode, and hist.final for the body).    *)

WorklogEvents == {Absent, "hours:created", "hours:updated", "hours:deleted", "hours:other"}

WorklogActionRequests ==
    {[kind |-> "worklogAction", headers |-> [lower |-> NoValue, upper |-> NoValue],
      body |-> b, event |-> e] :
        b \in {x \in Bodies : x.kind = "object"}, e \in WorklogEvents}
    \cup
    {[kind |-> "worklogAction", headers |-> [lower |-> NoValue, upper |-> NoValue],
      body |-> b, event |-> Absent] : b \in {x \in Bodies : x.kind # "object"}}

(* return { statusCode, headers, body } *)
Respond(p, l, h, statusCode, body) ==
    Goto(p, "done", l, [h EXCEPT !.result = "returned", !.statusCode = statusCode,
                                 !.final = body])

(* an exception leaves handleWorklogAction *)
Escape(p, l, h) == Goto(p, "done", l, [h EXCEPT !.result = "thrown"])

(* !event || !accountId || !issueKey || !started || timeSpentSeconds === undefined *)
CommonFieldsMissing(event, body) ==
    \/ Falsy(event)
    \/ Falsy(body.userId)
    \/ Falsy(body.issueKey)
    \/ Falsy(body.started)
    \/ body.timeSpentSeconds = Undefined

WorklogApiMethod(event) ==
    IF event = "hours:created" THEN "POST"
    ELSE IF event = "hours:updated" THEN "PUT"
    ELSE "DELETE"

successMessageAction(event) ==
    IF event = "hours:created" THEN "success: created"
    ELSE IF event = "hours:updated" THEN "success: updated"
    ELSE "success: deleted"

(* the request callJiraApi builds: the url ends in /<worklogId> for PUT    *)
(* and DELETE with a worklogId, the body exists for POST and PUT           *)
WorklogApiRequest(method, worklogId) ==
    [method |-> method,
     worklogId |-> IF method \in {"PUT", "DELETE"} /\ ~Falsy(worklogId) THEN worklogId ELSE Absent,
     hasBody |-> method \in {"POST", "PUT"}]

(* the catch block of state.js refreshAccessToken *)
WorklogRefreshCatch(error) ==
    IF Includes(error.msg, "Refresh token invalid") THEN error ELSE GenericRefreshError

(* the `!response.ok` branch of state.js refreshAccessToken: the error     *)
(* thrown for invalid_grant is thrown inside the inner try and swallowed   *)
(* by its catch, so every status ends in the status error                  *)
WorklogRefreshResponseError(status, body) ==
    WorklogRefreshCatch(Err(<<"Token refresh failed with status: <status>">>))

(* catch (refreshError) of handleWorklogAction *)
WorklogRefreshFails(p, l, h, e) ==
    LET h1 == [h EXCEPT !.refreshOutcome = "generic", !.refreshError = e]
    IN  IF Includes(e.msg, "re-authenticate") \/ Includes(e.msg, "Refresh token invalid")
        THEN Escape(p, l, h1)
        ELSE Respond(p, l, h1, 500,
                     "error: Failed to process worklog for user <id> after authentication issue")

(* callJiraApi up to its fetch *)
WorklogBeginApiCall(p, l, h, next) ==
    Goto(p, next, l,
         [h EXCEPT !.apiCalls = @ + 1,
                   !.apiTokens = Append(@, l.currentAccessToken),
                   !.apiRequests = Append(@, WorklogApiRequest(WorklogApiMethod(req[p].event),
                                                               req[p].body.worklogId))])

(* `Process Final API Response` up to its first await *)
WorklogFinal(p, l, h) ==
    IF WorklogApiMethod(req[p].event) = "DELETE" /\ l.apiResult.status = 204
    THEN Respond(p, l, h, 200, successMessageAction(req[p].event))
    ELSE Goto(p, "waReadBody", l, h)

WorklogInit ==
    /\ oauthState = [u \in Users |-> NoPending]
    /\ plainSecret = NoValue
    /\ secretStore = NoValue
    /\ cred \in {[u \in Users |-> IF u = "U1" THEN r ELSE NoRecord] : r \in InitialRecords}
    /\ actionLog = <<>>
    /\ clientConfigured \in BOOLEAN
    /\ pc = [p \in Procs |-> "idle"]
    /\ req = [p \in Procs |-> NoRequest]
    /\ loc = [p \in Procs |-> InitLoc]
    /\ hist = [p \in Procs |-> InitHist]

WorklogApiStatuses == ApiStatuses \cup {204}

(* handleWorklogAction(req) up to `await storage.get(storageKey)`: the     *)
(* body is parsed and the common fields are validated                      *)
handleWorklogAction(p) ==
    /\ pc[p] = "idle"
    /\ \A q \in Procs : pc[q] = "idle"
    /\ \E r \in WorklogActionRequests :
        /\ req' = [req EXCEPT ![p] = r]
        /\ IF r.body.kind = "garbage"
           THEN Respond(p, loc[p], hist[p], 400, "error: Invalid JSON payload in request body.")
           ELSE IF CommonFieldsMissing(r.event, r.body)
           THEN Respond(p, loc[p], [hist[p] EXCEPT !.bodyParsed = TRUE], 400,
                        "error: Missing required fields in payload (event, userId, issueKey, started, timeSpentSeconds).")
           ELSE Goto(p, "waLoadCred", [loc[p] EXCEPT !.payloadParsed = TRUE],
                     [hist[p] EXCEPT !.bodyParsed = TRUE])
    /\ UNCHANGED <<oauthState, plainSecret, secretStore, cred, actionLog, clientConfigured>>

(* storage.get settles; the credential check, the dispatch on event and    *)
(* the first callJiraApi up to its fetch                                   *)
WorklogLoadCred(p) ==
    /\ pc[p] = "waLoadCred"
    /\ \E fails \in BOOLEAN :
        LET h == [hist[p] EXCEPT !.credReads = @ + 1]
            userData == cred[req[p].body.userId]
            event == req[p].event
            l == [loc[p] EXCEPT !.userData = userData,
                                !.currentAccessToken = userData.accessToken]
            hl == [h EXCEPT !.credLoaded = TRUE]
        IN  IF fails \/ CredentialIncomplete(userData)
            THEN Respond(p, loc[p], IF fails THEN h ELSE hl, 500,
                         "error: Could not retrieve user authentication data")
            ELSE IF event \notin {"hours:created", "hours:updated", "hours:deleted"}
            THEN Respond(p, l, hl, 400, "error: Unsupported event type")
            ELSE IF event \in {"hours:updated", "hours:deleted"} /\ Falsy(req[p].body.worklogId)
            THEN Respond(p, l, hl, 400, "error: Missing required field worklogId for event")
            ELSE WorklogBeginApiCall(p, l, hl, "waApiCall1")
    /\ UNCHANGED <<oauthState, plainSecret, secretStore, cred, actionLog, clientConfigured, req>>

(* the first fetch settles; on 401/403 refreshAccessToken up to its fetch  *)
WorklogApiCall1(p) ==
    /\ pc[p] = "waApiCall1"
    /\ \/ Escape(p, loc[p], hist[p])
       \/ \E s \in WorklogApiStatuses :
            LET l == [loc[p] EXCEPT !.apiResult = [call |-> 1, status |-> s]]
                h == [hist[p] EXCEPT !.apiStatuses = Append(@, s)]
                h1 == [h EXCEPT !.refreshCalls = @ + 1]
            IN  IF ~NeedsRefresh(s) THEN WorklogFinal(p, l, h)
                ELSE IF ~clientConfigured
                THEN WorklogRefreshFails(p, l, h1, Err(<<"OAuth client configuration missing.">>))
                ELSE IF Falsy(l.userData.refreshToken)
                THEN WorklogRefreshFails(p, l, h1,
                         Err(<<"Refresh token is missing, user needs to re-authenticate.">>))
                ELSE Goto(p, "waRefreshFetch", l, h1)
    /\ UNCHANGED <<oauthState, plainSecret, secretStore, cred, actionLog, clientConfigured, req>>

(* the token-exchange fetch settles and its body is read *)
WorklogRefreshFetch(p) ==
    /\ pc[p] = "waRefreshFetch"
    /\ LET h == [hist[p] EXCEPT !.tokenRequests = @ + 1]
       IN  \/ WorklogRefreshFails(p, loc[p], [h EXCEPT !.idpStatus = 0, !.idpBody = "no response"],
                                  WorklogRefreshCatch(Err(<<"<fetch failure>">>)))
           \/ \E s \in IdpErrorStatuses, b \in IdpErrorBodies :
                WorklogRefreshFails(p, loc[p], [h EXCEPT !.idpStatus = s, !.idpBody = b],
                                    WorklogRefreshResponseError(s, b))
           \/ \E at \in NewAccessTokens, rt \in NewRefreshTokens :
                LET h1 == [h EXCEPT !.idpStatus = 200, !.idpBody = "token data"]
                IN  IF Falsy(at)
                    THEN WorklogRefreshFails(p, loc[p], h1,
                             WorklogRefreshCatch(Err(<<"Failed to obtain new access token after refresh.">>)))
                    ELSE Goto(p, "waRefreshGet",
                              [loc[p] EXCEPT !.newAccessToken = at, !.newRefreshToken = rt], h1)
    /\ UNCHANGED <<oauthState, plainSecret, secretStore, cred, actionLog, clientConfigured, req>>

(* existingUserData = await storage.get(storageKey) || {} *)
WorklogRefreshGet(p) ==
    /\ pc[p] = "waRefreshGet"
    /\ LET h == [hist[p] EXCEPT !.credReads = @ + 1]
       IN  \/ WorklogRefreshFails(p, loc[p], h, WorklogRefreshCatch(Err(<<"<storage failure>">>)))
           \/ Goto(p, "waRefreshSet",
                   [loc[p] EXCEPT !.existingUserData = cred[req[p].body.userId]], h)
    /\ UNCHANGED <<oauthState, plainSecret, secretStore, cred, actionLog, clientConfigured, req>>

(* await storage.set(storageKey, updatedUserData), then the retried        *)
(* callJiraApi up to its fetch                                             *)
WorklogRefreshSet(p) ==
    /\ pc[p] = "waRefreshSet"
    /\ \/ /\ WorklogRefreshFails(p, loc[p], hist[p],
                                  WorklogRefreshCatch(Err(<<"<storage failure>">>)))
          /\ UNCHANGED cred
       \/ /\ cred' = [cred EXCEPT ![req[p].body.userId] =
                        UpdatedUserData(loc[p].existingUserData, loc[p].newAccessToken,
                                        loc[p].newRefreshToken)]
          /\ WorklogBeginApiCall(p,
                 [loc[p] EXCEPT !.currentAccessToken = loc[p].newAccessToken],
                 [hist[p] EXCEPT !.credWrites = @ + 1, !.refreshOutcome = "ok"],
                 "waApiCall2")
    /\ UNCHANGED <<oauthState, plainSecret, secretStore, actionLog, clientConfigured, req>>

(* the retried fetch settles; its network error is caught with the         *)
(* refresh errors                                                          *)
WorklogApiCall2(p) ==
    /\ pc[p] = "waApiCall2"
    /\ \/ WorklogRefreshFails(p, loc[p], hist[p],
               Err(<<"Network or unexpected error occurred while calling Jira API.">>))
       \/ \E s \in WorklogApiStatuses :
            WorklogFinal(p, [loc[p] EXCEPT !.apiResult = [call |-> 2, status |-> s]],
                         [hist[p] EXCEPT !.apiStatuses = Append(@, s)])
    /\ UNCHANGED <<oauthState, plainSecret, secretStore, cred, actionLog, clientConfigured, req>>

(* await apiResult.response.text() / .json() settles *)
WorklogReadBody(p) ==
    /\ pc[p] = "waReadBody"
    /\ \/ Escape(p, loc[p], hist[p])
       \/ IF ~IsOk(loc[p].apiResult.status)
          THEN Respond(p, loc[p], hist[p], loc[p].apiResult.status, "error: Jira API error")
          ELSE \E id \in ResponseIds :
                 Respond(p, loc[p], [hist[p] EXCEPT !.responseId = id], 200,
                         successMessageAction(req[p].event))
    /\ UNCHANGED <<oauthState, plainSecret, secretStore, cred, actionLog, clientConfigured, req>>

WorklogNext ==
    \E p \in SoloProcs :
        \/ handleWorklogAction(p)
        \/ WorklogLoadCred(p)
        \/ WorklogApiCall1(p)
        \/ WorklogRefreshFetch(p)
        \/ WorklogRefreshGet(p)
        \/ WorklogRefreshSet(p)
        \/ WorklogApiCall2(p)
        \/ WorklogReadBody(p)

WorklogSpec == WorklogInit /\ [][WorklogNext]_vars

TriggerOutputs(kind) ==
    IF kind = "create"
    THEN {"success-created", "error-bad-request", "error-unauthorized",
          "error-forbidden", "error-internal", "error-jira-api"}
    ELSE {"success-updated", "error-bad-request", "error-unauthorized",
          "error-forbidden", "error-not-found", "error-internal", "error-jira-api"}

----------------------------------------------------------------------------
(* Properties *)

AccountId(p) == req[p].body.userId

(* how callers recognise the re-authentication-required error:             *)
(* error.requiresReAuthentication || error.message.includes("re-authenticate") *)
IsReauthRequired(e) == e.requiresReAuthentication \/ Includes(e.msg, "re-authenticate")

FirstStatus(p) == hist[p].apiStatuses[1]

FirstCallAnswered(p) == Len(hist[p].apiStatuses) >= 1

(* C1: when the first upstream call returns 401 or 403 and the refresh     *)
(* succeeds, the refresher has been invoked exactly once, exactly one      *)
(* retried call is made, it carries the access token the refresh returned, *)
(* that token is in the credential store when the retried call is issued,  *)
(* and the retried call's response, whatever its status, is what           *)
(* callJiraApiWithRetry returns.                                           *)
C1_RetryOnceWithRefreshedToken ==
    \A p \in Procs :
        (FirstCallAnswered(p) /\ FirstStatus(p) \in {401, 403}
         /\ hist[p].refreshOutcome = "ok")
        => /\ hist[p].refreshCalls = 1
           /\ hist[p].tokenRequests = 1
           /\ hist[p].apiCalls = 2
           /\ hist[p].apiTokens[2] = loc[p].newAccessToken
           /\ hist[p].apiTokens[2] # Absent
           /\ hist[p].persistedAtRetry
           /\ (Len(hist[p].apiStatuses) = 2
               => /\ hist[p].orchestrator = "returned"
                  /\ hist[p].orchestratorResult = [call |-> 2, status |-> hist[p].apiStatuses[2]])
           /\ (hist[p].orchestrator = "returned" => hist[p].orchestratorResult.call = 2)

C1_Witness ==
    \E p \in Procs :
        /\ hist[p].apiStatuses = <<401, 403>>
        /\ hist[p].refreshOutcome = "ok"
        /\ hist[p].orchestrator = "returned"
        /\ hist[p].orchestratorResult.status = 403

(* C2: in every execution of callJiraApiWithRetry at most one refresh      *)
(* attempt is made (one call of the refresher, one token-exchange request) *)
(* and at most two upstream API calls are issued.                          *)
C2_AtMostOneRefreshTwoCalls ==
    \A p \in Procs :
        /\ hist[p].refreshCalls <= 1
        /\ hist[p].tokenRequests <= 1
        /\ hist[p].apiCalls <= 2
        /\ Len(hist[p].apiStatuses) <= 2

C2_Witness ==
    \E p \in Procs :
        /\ pc[p] = "done"
        /\ hist[p].refreshCalls = 1
        /\ hist[p].apiCalls = 2
        /\ hist[p].apiStatuses = <<401, 401>>

(* C3: when the first upstream call returns a status other than 401 and    *)
(* 403, callJiraApiWithRetry returns that response, never invokes the      *)
(* refresher, makes no second upstream call and leaves the stored          *)
(* credential record as it was loaded.                                     *)
C3_OtherStatusIsFinal ==
    \A p \in Procs :
        (FirstCallAnswered(p) /\ FirstStatus(p) \notin {401, 403})
        => /\ hist[p].orchestrator = "returned"
           /\ hist[p].orchestratorResult = [call |-> 1, status |-> FirstStatus(p)]
           /\ hist[p].refreshCalls = 0
           /\ hist[p].tokenRequests = 0
           /\ hist[p].apiCalls = 1
           /\ hist[p].credWrites = 0
           /\ cred[AccountId(p)] = loc[p].userData

C3_Witness ==
    \E p \in Procs :
        /\ hist[p].apiStatuses = <<404>>
        /\ hist[p].orchestrator = "returned"
        /\ pc[p] = "done"

(* C4: if the refresh triggered by a 401/403 fails with the                *)
(* re-authentication-required error, callJiraApiWithRetry fails with a     *)
(* re-authentication-required error, no retried upstream call is made and  *)
(* the credential store is not written.                                    *)
C4_ReauthPropagates ==
    \A p \in Procs :
        (hist[p].refreshCalls >= 1 /\ hist[p].refreshError.requiresReAuthentication)
        => /\ hist[p].orchestrator = "threw"
           /\ IsReauthRequired(hist[p].orchestratorError)
           /\ hist[p].apiCalls = 1
           /\ hist[p].credWrites = 0
           /\ cred[AccountId(p)] = loc[p].userData

C4_Witness ==
    \E p \in Procs :
        /\ hist[p].refreshError.requiresReAuthentication
        /\ hist[p].idpStatus = 403
        /\ hist[p].orchestrator = "threw"
        /\ pc[p] = "done"

RecordLacksRequiredField(r) ==
    \/ ~r.present
    \/ r.accessToken = Absent
    \/ r.refreshToken = Absent
    \/ r.cloudId = Absent

(* C5: if the credential record for accountId is missing or lacks one of   *)
(* accessToken, refreshToken, cloudId, callJiraApiWithRetry fails with the *)
(* auth-data-incomplete error before any upstream call or refresh, and     *)
(* writes nothing to the store.                                            *)
C5_IncompleteCredentialIsTerminal ==
    \A p \in Procs :
        (hist[p].credLoaded /\ RecordLacksRequiredField(cred[AccountId(p)]))
        => /\ hist[p].orchestrator = "threw"
           /\ hist[p].orchestratorError = AuthDataIncomplete
           /\ hist[p].apiCalls = 0
           /\ hist[p].refreshCalls = 0
           /\ hist[p].tokenRequests = 0
           /\ hist[p].credWrites = 0

C5_Witness ==
    \E p \in Procs :
        /\ hist[p].credLoaded
        /\ cred[AccountId(p)] = [CompleteRecord EXCEPT !.cloudId = Absent]
        /\ hist[p].orchestratorError = AuthDataIncomplete
        /\ pc[p] = "done"

(* C6: after a successful refreshAccessToken the stored record's           *)
(* accessToken is the newly returned one; its refreshToken is the returned *)
(* one if the provider returned one and otherwise the one stored before;   *)
(* cloudId and userInfo are what they were before the refresh, and no      *)
(* other user's record changes.                                            *)
C6_RefreshMergesTokens ==
    \A p \in Procs :
        hist[p].refreshOutcome = "ok"
        => LET after == cred[AccountId(p)]
               before == loc[p].userData
           IN  /\ after.present
               /\ after.accessToken = loc[p].newAccessToken
               /\ after.accessToken # Absent
               /\ after.refreshToken = IF loc[p].newRefreshToken # Absent
                                       THEN loc[p].newRefreshToken
                                       ELSE before.refreshToken
               /\ after.cloudId = before.cloudId
               /\ after.userInfo = before.userInfo
               /\ \A u \in Users \ {AccountId(p)} : cred[u] = NoRecord

C6_Witness ==
    \E p \in Procs :
        /\ hist[p].refreshOutcome = "ok"
        /\ loc[p].newRefreshToken = Absent
        /\ cred[AccountId(p)].refreshToken = "RT0"
        /\ cred[AccountId(p)].accessToken = "AT2"
        /\ cred[AccountId(p)].cloudId = "cloud-1"

ProviderRefused(p) == hist[p].idpStatus \in IdpErrorStatuses

(* C7 as stated: refreshAccessToken fails with the re-authentication-      *)
(* required error whenever the non-success response body reports           *)
(* invalid_grant, whatever the status, and with a generic error otherwise. *)
C7_AsStated ==
    \A p \in Procs :
        ProviderRefused(p)
        => IF hist[p].idpBody = "invalid_grant"
           THEN hist[p].refreshError.requiresReAuthentication
           ELSE hist[p].refreshError # NoErr /\ ~IsReauthRequired(hist[p].refreshError)

(* C7: refreshAccessToken fails with the re-authentication-required error  *)
(* when the provider answers 400 or 403 with a body reporting              *)
(* invalid_grant, and with a generic error that is not                     *)
(* re-authentication-required for every other non-success response,        *)
(* invalid_grant under another status included.                            *)
C7_InvalidGrantOn400Or403 ==
    \A p \in Procs :
        ProviderRefused(p)
        => IF hist[p].idpStatus \in {400, 403} /\ hist[p].idpBody = "invalid_grant"
           THEN hist[p].refreshError = ReauthError
           ELSE hist[p].refreshError # NoErr /\ ~IsReauthRequired(hist[p].refreshError)

C7_Witness ==
    \E p \in Procs :
        /\ hist[p].idpStatus = 401
        /\ hist[p].idpBody = "invalid_grant"
        /\ hist[p].refreshError = GenericRefreshError

PayloadLacksRequiredField(r) ==
    /\ r.body.kind = "object"
    /\ \/ r.body.userId = Absent
       \/ r.body.issueKey = Absent
       \/ r.body.started = Absent
       \/ r.body.timeSpentSeconds = Undefined
       \/ (r.kind = "update" /\ r.body.worklogId = Absent)

(* C8: for every request with a valid secret whose parsed payload lacks a  *)
(* required field, the create and update dispatchers return                *)
(* error-bad-request, and neither the credential store is read nor an      *)
(* upstream call attempted.                                                *)
C8_MissingFieldIsBadRequest ==
    \A p \in Procs :
        (pc[p] = "done" /\ hist[p].secretAccepted /\ PayloadLacksRequiredField(req[p]))
        => /\ hist[p].result = "returned"
           /\ hist[p].final = "error-bad-request"
           /\ hist[p].credReads = 0
           /\ hist[p].apiCalls = 0

SecretWrong(headers, stored) ==
    LET received == IF headers.lower.has /\ headers.lower.val # <<>>
                    THEN headers.lower ELSE headers.upper
    IN  \/ ~stored.has
        \/ ~received.has
        \/ received.val = <<>>
        \/ Trim(received.val) # Trim(stored.val)

(* C9: for every request whose shared-secret header is missing, empty or   *)
(* different (after trimming) from the stored secret, or when no secret is *)
(* stored, the create and update dispatchers return error-unauthorized     *)
(* without parsing the body, reading a credential record or making an      *)
(* upstream call.                                                          *)
C9_WrongSecretIsUnauthorized ==
    \A p \in Procs :
        (pc[p] = "done" /\ SecretWrong(req[p].headers, secretStore))
        => /\ hist[p].result = "returned"
           /\ hist[p].final = "error-unauthorized"
           /\ ~hist[p].bodyParsed
           /\ hist[p].credReads = 0
           /\ hist[p].apiCalls = 0

(* C10: every create and update invocation completes by returning exactly  *)
(* one outputKey from the outputs its trigger declares; no exception       *)
(* escapes the handler.                                                    *)
C10_AlwaysReturnsDeclaredOutput ==
    \A p \in Procs :
        pc[p] = "done"
        => /\ hist[p].result = "returned"
           /\ hist[p].final \in TriggerOutputs(req[p].kind)

StatedOutputKey(kind, status) ==
    IF status = 200 THEN (IF kind = "create" THEN "success-created" ELSE "success-updated")
    ELSE IF status = 400 THEN "error-bad-request"
    ELSE IF status = 401 THEN "error-unauthorized"
    ELSE IF status = 403 THEN "error-forbidden"
    ELSE IF status = 404 /\ kind = "update" THEN "error-not-found"
    ELSE "error-jira-api"

(* C11: the output key the dispatcher returns for the final upstream       *)
(* response is a function of its status alone: 200 gives success-<verb>,   *)
(* 400 error-bad-request, 401 error-unauthorized, 403 error-forbidden,     *)
(* 404 error-not-found on update and error-jira-api on create, any other   *)
(* status error-jira-api, for every upstream error body.                   *)
C11_OutputKeyIsFunctionOfStatus ==
    \A p \in Procs :
        (pc[p] = "done" /\ hist[p].orchestrator = "returned")
        => /\ hist[p].result = "returned"
           /\ hist[p].final = StatedOutputKey(req[p].kind, hist[p].orchestratorResult.status)

NetworkError ==
    Err(<<"Failed to execute Jira API request: ",
          "Network or unexpected error occurred while calling Jira API.">>)

C13_UnusableBodyIsBadRequest ==
    \A p \in Procs :
        (pc[p] = "done" /\ hist[p].secretAccepted
         /\ req[p].body.kind \in {"missing", "garbage", "emptyObject"})
        => /\ hist[p].result = "returned"
           /\ hist[p].final = "error-bad-request"

(* C14: every dispatcher invocation, whatever its outcome, calls the       *)
(* Action Logger exactly once before it returns.                           *)
C14_LoggerCalledExactlyOnce ==
    \A p \in Procs :
        /\ hist[p].logCalls <= 1
        /\ pc[p] = "done" => (hist[p].result = "returned" /\ hist[p].logCalls = 1)

(* C15: a failure of the log store read or write inside logAction does not *)
(* escape it: from the call of logAction on, the handler's outputKey does  *)
(* not change, and the handler returns that outputKey whether the log was  *)
(* written or not.                                                         *)
C15_LogFailureKeepsOutcome ==
    [][\A p \in Procs :
          pc[p] \in {"logGet", "logSet"}
          => /\ loc'[p].outputKey = loc[p].outputKey
             /\ pc'[p] = "done"
                => (hist'[p].result = "returned" /\ hist'[p].final = loc[p].outputKey)]_vars

C15_Witness ==
    \E p \in Procs :
        /\ pc[p] = "done"
        /\ hist[p].logCalls = 1
        /\ hist[p].logWrites = 0
        /\ actionLog = <<>>
        /\ hist[p].result = "returned"
        /\ hist[p].final = "success-updated"

Min(a, b) == IF a < b THEN a ELSE b

(* C16: a logAction call that runs alone against a stored log of n entries *)
(* (0 <= n <= 50) and writes it leaves min(n+1, 50) entries with the entry *)
(* just logged first; the stored log never holds more than 50 entries      *)
(* after any sequence of logAction calls.                                  *)
C16_LogBoundedNewestFirst ==
    /\ [](Len(actionLog) <= MAX_LOG_ENTRIES)
    /\ [][\A p \in Procs :
             (pc[p] = "logSet" /\ hist'[p].logWrites = hist[p].logWrites + 1)
             => /\ Len(actionLog') = Min(Len(actionLog) + 1, MAX_LOG_ENTRIES)
                /\ actionLog'[1] = loc[p].logEntry
                /\ \A i \in 2..Len(actionLog') : actionLog'[i] = actionLog[i - 1]]_vars

C16_Witness ==
    \E p \in Procs :
        /\ pc[p] = "done"
        /\ hist[p].logWrites = 1
        /\ Len(loc[p].currentLogs) = MAX_LOG_ENTRIES
        /\ Len(actionLog) = MAX_LOG_ENTRIES
        /\ actionLog[1] = loc[p].logEntry
        /\ actionLog[1].actionType = "create"
        /\ actionLog[2] = OldLogEntry

SecretReadFailed(p) ==
    hist[p].secretError
        = Err(<<"Server configuration error: Could not retrieve shared secret.">>)

(* C17: once the stored secret has been read, validateZapierSecret fails   *)
(* whenever the stored secret is unset, the inbound x-zapier-secret header *)
(* is missing or empty, or the trimmed header value differs from the       *)
(* trimmed stored value, and succeeds when a secret is stored and the      *)
(* trimmed values are equal.                                               *)
C17_SecretValidation ==
    \A p \in Procs :
        (hist[p].secretReads = 1 /\ ~SecretReadFailed(p))
        => LET received == HeaderValue(req[p].headers)
               fails == \/ ~secretStore.has
                        \/ ~received.has
                        \/ received.val = <<>>
                        \/ Trim(received.val) # Trim(secretStore.val)
           IN  /\ fails => (hist[p].secretError # NoErr /\ ~hist[p].secretAccepted)
               /\ (secretStore.has /\ received.has /\ received.val # <<>>
                   /\ Trim(received.val) = Trim(secretStore.val))
                  => (hist[p].secretError = NoErr /\ hist[p].secretAccepted)

C17_Witness ==
    \E p \in Procs :
        /\ hist[p].secretReads = 1
        /\ req[p].headers.lower = Val(HeaderPadded)
        /\ secretStore = Val(SecretKPadded)
        /\ hist[p].secretError = NoErr
        /\ hist[p].secretAccepted

(* C18: a create request with a valid secret, a complete payload and a     *)
(* complete stored credential whose final upstream response is 200 with    *)
(* id X returns success-created, and the entry handed to the logger, which *)
(* is the first entry of the log once written, has actionType create,      *)
(* success true and worklogId X.                                           *)
C18_CreateSuccessIsLogged ==
    \A p \in Procs :
        (pc[p] = "done" /\ req[p].kind = "create"
         /\ hist[p].secretAccepted /\ ~MissingRequiredFields("create", req[p].body)
         /\ hist[p].orchestrator = "returned"
         /\ hist[p].orchestratorResult.status = 200
         /\ hist[p].responseId \notin {"none", Absent})
        => /\ hist[p].result = "returned"
           /\ hist[p].final = "success-created"
           /\ hist[p].logCalls = 1
           /\ loc[p].logEntry.actionType = "create"
           /\ loc[p].logEntry.success
           /\ loc[p].logEntry.worklogId = hist[p].responseId
           /\ hist[p].logWrites = 1
              => (actionLog # <<>> /\ actionLog[1] = loc[p].logEntry)

C18_Witness ==
    \E p \in Procs :
        /\ pc[p] = "done"
        /\ req[p].kind = "create"
        /\ hist[p].apiStatuses = <<200>>
        /\ hist[p].responseId = "999"
        /\ hist[p].final = "success-created"
        /\ hist[p].logWrites = 1
        /\ actionLog[1].actionType = "create"
        /\ actionLog[1].success
        /\ actionLog[1].worklogId = "999"

DeleteRequestAsDocumented(r) ==
    /\ r.event = "hours:deleted"
    /\ r.body.kind = "object"
    /\ r.body.userId # Absent
    /\ r.body.issueKey # Absent
    /\ r.body.worklogId # Absent
    /\ r.body.started = Absent
    /\ r.body.timeSpentSeconds = Undefined

(* C19: a delete request carrying exactly {event: hours:deleted, userId,   *)
(* issueKey, worklogId}, for a user with a complete stored credential, is  *)
(* accepted: a DELETE upstream call addressed to that worklogId is issued  *)
(* with no body, and an upstream 204 yields the deleted-success response.  *)
C19_DocumentedDeleteAccepted ==
    \A p \in Procs :
        (pc[p] = "done" /\ DeleteRequestAsDocumented(req[p])
         /\ ~RecordLacksRequiredField(cred[AccountId(p)]))
        => /\ hist[p].apiCalls >= 1
           /\ hist[p].apiRequests[1]
                = [method |-> "DELETE", worklogId |-> req[p].body.worklogId, hasBody |-> FALSE]
           /\ (hist[p].apiStatuses # <<>>
               /\ hist[p].apiStatuses[Len(hist[p].apiStatuses)] = 204)
              => /\ hist[p].result = "returned"
                 /\ hist[p].statusCode = 200
                 /\ hist[p].final = "success: deleted"

(* C20: a delete request that lacks worklogId is answered with status 400, *)
(* no upstream call is made, and the action logger is called with an entry *)
(* whose success is false.                                                 *)
C20_DeleteWithoutWorklogId ==
    \A p \in Procs :
        (pc[p] = "done" /\ req[p].event = "hours:deleted" /\ req[p].body.kind = "object"
         /\ req[p].body.worklogId = Absent)
        => /\ hist[p].result = "returned"
           /\ hist[p].statusCode = 400
           /\ hist[p].apiCalls = 0
           /\ hist[p].logCalls = 1
           /\ ~loc[p].logEntry.success

----------------------------------------------------------------------------
(* The authorization flow: the getOAuthLoginUrl resolver (index.js, and    *)
(* its other version in part_002) and oauthCallbackHandler (oauth.js holds *)
(* two versions of it, lines 35-290 and lines 466-627).  Invocations run   *)
(* one at a time, in the order of the flow: the login URL is requested,    *)
(* the callback arrives, a dispatcher is invoked; each of them may be      *)
(* left out.                                                               *)

LoginUrlVersions == {"index.js", "part_002"}
CallbackVersions == {"first", "second"}

(* Date.now().toString(36) and the two Math.random() pieces *)
StateTimestamps == {"t1", "t2"}
StateRandoms == {"r1"}

(* state.js: `secure-${timestamp}-${random}` *)
generateStateParameter(timestamp, random) == <<"secure-", timestamp, "-", random>>

(* String.prototype.startsWith on a string kept as its pieces *)
StartsWith(s, prefix) == s # <<>> /\ s[1] = prefix

(* the authorization URL, by its state parameter; every character of a     *)
(* generated token is unreserved, so encodeURIComponent leaves it as it is *)
constructOAuthUrl == [issued |-> TRUE, state |-> NoValue]
constructOAuthUrlWithState(state) == [issued |-> TRUE, state |-> Val(state)]
NoUrl == [issued |-> FALSE, state |-> NoValue]

(* the `state` query parameter the callback can receive *)
StateParams ==
    {NoValue, Val(<<>>), Val(<<"forged">>)}
    \cup {Val(generateStateParameter(t, r)) : t \in StateTimestamps, r \in StateRandoms}

CallbackRequests ==
    [kind : {"callback"}, version : CallbackVersions, error : BOOLEAN, code : BOOLEAN,
     state : StateParams]

LoginUrlRequests ==
    [kind : {"loginUrl"}, version : LoginUrlVersions, accountId : {Absent, "U1"}]

(* variant: the format of the state parameter is not examined *)
CallbackParamErrorWithoutFormat(r) ==
    IF r.error THEN "Authentication error: <error>"
    ELSE IF ~r.code THEN "Missing authorization code parameter"
    ELSE IF ~r.state.has \/ r.state.val = <<>> THEN "Invalid security parameter"
    ELSE "none"

(* `if (error)`, `if (!code)`, `if (!state || !state.startsWith('secure-'))`: *)
(* the message of the error response, or "none"                            *)
CallbackParamError(r) ==
    IF r.error THEN "Authentication error: <error>"
    ELSE IF ~r.code THEN "Missing authorization code parameter"
    ELSE IF ~r.state.has \/ r.state.val = <<>> \/ ~StartsWith(r.state.val, "secure-")
    THEN "Invalid security parameter"
    ELSE "none"

NoResponse == [outcome |-> "none", status |-> 0]

(* createErrorResponse: the first version passes a status, the second      *)
(* always answers 200 with the failure page                                *)
createErrorResponse(version, status) ==
    [outcome |-> "failure", status |-> IF version = "first" THEN status ELSE 200]

SuccessResponse == [outcome |-> "success", status |-> 200]

(* tokenResponse.status >= 500 ? 502 : 500 *)
UpstreamFailureStatus(status) == IF status >= 500 THEN 502 ELSE 500

GrantedAccessTokens == {Absent, "AT1"}
GrantedRefreshTokens == {Absent, "RT1"}
Identities == {Absent, "U1", "U2"}

(* what the accessible-resources call can bring: no response, a non-2xx    *)
(* response, an empty list, a list the handler finds no site with an id    *)
(* in, a list with the Jira site                                           *)
DiscoveryOutcomes == {"network error", "not ok", "empty", "unsuitable", "site"}

(* variant: a placeholder stands in when no site was found *)
DiscoveredCloudIdWithPlaceholder(version, outcome) ==
    IF outcome = "site" THEN "cloud-1" ELSE "unknown-cloud"

(* cloudId after Step 5.5 (first version: jiraResource.id, else left       *)
(* undefined; second version: resources[0].id, else null)                  *)
DiscoveredCloudId(version, outcome) ==
    IF outcome = "site" THEN "cloud-1" ELSE Absent

(* variant: a state that differs from the stored one ends the flow *)
StateCheckRejectingMismatch(stored, state) ==
    IF stored.present /\ stored.state # <<>>
    THEN [case |-> IF stored.state = state THEN "equal" ELSE "different",
          delete |-> TRUE, abort |-> stored.state # state]
    ELSE [case |-> "none", delete |-> FALSE, abort |-> FALSE]

(* Step 8 of the first version: `if (storedStateData && storedStateData.state)`; *)
(* a mismatch is only warned about, the stored record is then deleted      *)
StateCheck(stored, state) ==
    IF stored.present /\ stored.state # <<>>
    THEN [case |-> IF stored.state = state THEN "equal" ELSE "different",
          delete |-> TRUE, abort |-> FALSE]
    ELSE [case |-> "none", delete |-> FALSE, abort |-> FALSE]

(* tokenPayload; the second version stores no userInfo *)
TokenPayload(version, l) ==
    [present |-> TRUE, accessToken |-> l.accessToken, refreshToken |-> l.refreshToken,
     cloudId |-> l.cloudId,
     userInfo |-> IF version = "second" THEN Absent
                  ELSE IF l.accountId = "U1" THEN "profile-U1" ELSE "profile-U2",
     expiresAt |-> "at-authorization", timestamp |-> "at-authorization"]

(* variant: the pending state is written under the credential key *)
OAuthStateKeyOfToken(accountId) == <<"oauth_token", accountId>>

(* `oauth_state:${accountId}` *)
OAuthStateKey(accountId) == <<"oauth_state", accountId>>

OAuthLoc ==
    [accessToken |-> Absent, refreshToken |-> Absent, cloudId |-> Absent,
     accountId |-> Absent, state |-> <<>>, url |-> NoUrl]

OAuthHist ==
    [tokenExchanges |-> 0, exchanged |-> FALSE, identified |-> FALSE,
     discovery |-> "none", stateCase |-> "none", stateReads |-> 0, stateWrites |-> 0,
     stateDeletes |-> 0, credWrites |-> 0, storeFailed |-> FALSE,
     url |-> NoUrl, response |-> NoResponse, result |-> "none"]

(* an invocation starts once the one before it has ended *)
StartsAfter(p, kinds) ==
    /\ pc[p] \in {"idle", "done"}
    /\ req[p].kind \in kinds

(* the handler returns a Response *)
Reply(p, l, h, response) ==
    Goto(p, "done", l, [h EXCEPT !.response = response, !.result = "returned"])

(* the resolver throws `Failed to generate authorization URL: ...` *)
LoginUrlThrow(p, l, h) == Goto(p, "done", l, [h EXCEPT !.result = "thrown"])

(* the resolver returns authUrl *)
LoginUrlReturn(p, l, h) ==
    Goto(p, "done", l, [h EXCEPT !.url = l.url, !.result = "returned"])

(* getOAuthLoginUrl up to `await webTrigger.getUrl`: CLIENT_ID is read *)
LoginUrlInvoke(p) ==
    /\ StartsAfter(p, {"none"})
    /\ \E r \in LoginUrlRequests, hasClientId \in {b \in BOOLEAN : clientConfigured => b} :
        /\ req' = [req EXCEPT ![p] = r]
        /\ IF ~hasClientId
           THEN LoginUrlThrow(p, OAuthLoc, OAuthHist)
           ELSE Goto(p, "luGetUrl", OAuthLoc, OAuthHist)
    /\ UNCHANGED <<oauthState, plainSecret, secretStore, cred, actionLog, clientConfigured>>

(* getUrl settles; index.js builds the URL without a state and returns it; *)
(* part_002 generates the state, builds the URL and, for a known user,     *)
(* goes on to `await storage.set`                                           *)
LoginUrlGetUrl(p) ==
    /\ pc[p] = "luGetUrl"
    /\ \/ LoginUrlThrow(p, loc[p], hist[p])
       \/ /\ req[p].version = "index.js"
          /\ LoginUrlReturn(p, [loc[p] EXCEPT !.url = constructOAuthUrl], hist[p])
       \/ /\ req[p].version = "part_002"
          /\ \E t \in StateTimestamps, r \in StateRandoms :
               LET state == generateStateParameter(t, r)
                   l == [loc[p] EXCEPT !.state = state,
                                       !.url = constructOAuthUrlWithState(state)]
               IN  IF Falsy(req[p].accountId)
                   THEN LoginUrlReturn(p, l, hist[p])
                   ELSE Goto(p, "luStore", l, hist[p])
    /\ UNCHANGED <<oauthState, plainSecret, secretStore, cred, actionLog, clientConfigured, req>>

(* storage.set(`oauth_state:${accountId}`, { state, createdAt }) settles;  *)
(* a failure is only reported                                              *)
LoginUrlStore(p) ==
    /\ pc[p] = "luStore"
    /\ \/ /\ LoginUrlReturn(p, loc[p], hist[p])
          /\ UNCHANGED <<oauthState, cred>>
       \/ LET key == OAuthStateKey(req[p].accountId)
          IN  /\ oauthState' = IF key[1] = "oauth_state"
                               THEN [oauthState EXCEPT ![key[2]] = Pending(loc[p].state)]
                               ELSE oauthState
              /\ cred' = IF key[1] = "oauth_token"
                         THEN [cred EXCEPT ![key[2]] = [NoRecord EXCEPT !.present = TRUE]]
                         ELSE cred
              /\ LoginUrlReturn(p, loc[p], [hist[p] EXCEPT !.stateWrites = @ + 1])
    /\ UNCHANGED <<plainSecret, secretStore, actionLog, clientConfigured, req>>

(* oauthCallbackHandler up to `await webTrigger.getUrl`: the query         *)
(* parameters are extracted and checked                                    *)
CallbackInvoke(p) ==
    /\ StartsAfter(p, {"none", "loginUrl"})
    /\ \E r \in CallbackRequests :
        /\ req' = [req EXCEPT ![p] = r]
        /\ IF CallbackParamError(r) # "none"
           THEN Reply(p, OAuthLoc, OAuthHist, createErrorResponse(r.version, 400))
           ELSE Goto(p, "cbGetUrl", OAuthLoc, OAuthHist)
    /\ UNCHANGED <<oauthState, plainSecret, secretStore, cred, actionLog, clientConfigured>>

(* getUrl settles, the client credentials are checked, the token-exchange  *)
(* request is issued                                                       *)
CallbackGetUrl(p) ==
    /\ pc[p] = "cbGetUrl"
    /\ \/ Reply(p, loc[p], hist[p], createErrorResponse(req[p].version, 500))
       \/ IF ~clientConfigured
          THEN Reply(p, loc[p], hist[p], createErrorResponse(req[p].version, 500))
          ELSE Goto(p, "cbToken", loc[p], [hist[p] EXCEPT !.tokenExchanges = @ + 1])
    /\ UNCHANGED <<oauthState, plainSecret, secretStore, cred, actionLog, clientConfigured, req>>

(* the token exchange settles and its body is read; the first version goes *)
(* on to resource discovery, the second to the identity request            *)
CallbackToken(p) ==
    /\ pc[p] = "cbToken"
    /\ \/ Reply(p, loc[p], hist[p], createErrorResponse(req[p].version, 500))
       \/ \E s \in IdpErrorStatuses :
            Reply(p, loc[p], hist[p],
                  createErrorResponse(req[p].version, UpstreamFailureStatus(s)))
       \/ \E at \in GrantedAccessTokens, rt \in GrantedRefreshTokens :
            IF Falsy(at)
            THEN Reply(p, loc[p], hist[p], createErrorResponse(req[p].version, 500))
            ELSE Goto(p, IF req[p].version = "first" THEN "cbResources" ELSE "cbUserInfo",
                      [loc[p] EXCEPT !.accessToken = at, !.refreshToken = rt],
                      [hist[p] EXCEPT !.exchanged = TRUE])
    /\ UNCHANGED <<oauthState, plainSecret, secretStore, cred, actionLog, clientConfigured, req>>

(* the accessible-resources request settles and its body is read; no       *)
(* outcome ends the flow                                                   *)
CallbackResources(p) ==
    /\ pc[p] = "cbResources"
    /\ \E o \in DiscoveryOutcomes :
         Goto(p, IF req[p].version = "first" THEN "cbUserInfo" ELSE "cbStore",
              [loc[p] EXCEPT !.cloudId = DiscoveredCloudId(req[p].version, o)],
              [hist[p] EXCEPT !.discovery = o])
    /\ UNCHANGED <<oauthState, plainSecret, secretStore, cred, actionLog, clientConfigured, req>>

(* the identity request settles and its body is read; account_id is checked *)
CallbackUserInfo(p) ==
    /\ pc[p] = "cbUserInfo"
    /\ \/ Reply(p, loc[p], hist[p], createErrorResponse(req[p].version, 500))
       \/ \E s \in IdpErrorStatuses :
            Reply(p, loc[p], hist[p],
                  createErrorResponse(req[p].version, UpstreamFailureStatus(s)))
       \/ \E id \in Identities :
            IF Falsy(id)
            THEN Reply(p, loc[p], hist[p], createErrorResponse(req[p].version, 400))
            ELSE Goto(p, IF req[p].version = "first" THEN "cbStateGet" ELSE "cbResources",
                      [loc[p] EXCEPT !.accountId = id],
                      [hist[p] EXCEPT !.identified = TRUE])
    /\ UNCHANGED <<oauthState, plainSecret, secretStore, cred, actionLog, clientConfigured, req>>

(* first version, Step 8: storage.get(`oauth_state:${accountId}`) settles; *)
(* a failure is only warned about                                          *)
CallbackStateGet(p) ==
    /\ pc[p] = "cbStateGet"
    /\ \/ Goto(p, "cbStore", loc[p], [hist[p] EXCEPT !.stateCase = "unreadable"])
       \/ LET c == StateCheck(oauthState[loc[p].accountId], req[p].state.val)
              h == [hist[p] EXCEPT !.stateReads = @ + 1, !.stateCase = c.case]
          IN  IF c.abort THEN Reply(p, loc[p], h, createErrorResponse(req[p].version, 400))
              ELSE IF c.delete THEN Goto(p, "cbStateDelete", loc[p], h)
              ELSE Goto(p, "cbStore", loc[p], h)
    /\ UNCHANGED <<oauthState, plainSecret, secretStore, cred, actionLog, clientConfigured, req>>

(* storage.delete(`oauth_state:${accountId}`) settles; a failure is only   *)
(* warned about                                                            *)
CallbackStateDelete(p) ==
    /\ pc[p] = "cbStateDelete"
    /\ \/ /\ Goto(p, "cbStore", loc[p], hist[p])
          /\ UNCHANGED oauthState
       \/ /\ oauthState' = [oauthState EXCEPT ![loc[p].accountId] = NoPending]
          /\ Goto(p, "cbStore", loc[p], [hist[p] EXCEPT !.stateDeletes = @ + 1])
    /\ UNCHANGED <<plainSecret, secretStore, cred, actionLog, clientConfigured, req>>

(* storage.set(tokenStorageKey, tokenPayload) settles *)
CallbackStore(p) ==
    /\ pc[p] = "cbStore"
    /\ \/ /\ Reply(p, loc[p], [hist[p] EXCEPT !.storeFailed = TRUE],
                   createErrorResponse(req[p].version, 500))
          /\ UNCHANGED cred
       \/ /\ cred' = [cred EXCEPT ![loc[p].accountId] = TokenPayload(req[p].version, loc[p])]
          /\ Reply(p, loc[p], [hist[p] EXCEPT !.credWrites = @ + 1], SuccessResponse)
    /\ UNCHANGED <<oauthState, plainSecret, secretStore, actionLog, clientConfigured, req>>

(* webhook requests of the automation platform: the right secret and a     *)
(* complete payload for user U1                                            *)
AuthorizedRequests ==
    {r \in Requests :
        /\ r.headers = [lower |-> Val(SecretK), upper |-> NoValue]
        /\ r.body = [kind |-> "object", userId |-> "U1", issueKey |-> "COM-1",
                     started |-> "2024-01-01", timeSpentSeconds |-> 3600,
                     worklogId |-> "77"]}

(* the web trigger invokes a dispatcher; it runs to `await storage.getSecret` *)
AuthorizedInvoke(p) ==
    /\ StartsAfter(p, {"none", "loginUrl", "callback"})
    /\ \E r \in AuthorizedRequests :
        /\ req' = [req EXCEPT ![p] = r]
        /\ Goto(p, "getSecret", InitLoc, InitHist)
    /\ UNCHANGED <<oauthState, plainSecret, secretStore, cred, actionLog, clientConfigured>>

(* a record an earlier callback stored after resource discovery failed *)
RecordWithoutCloudId == [CompleteRecord EXCEPT !.cloudId = Absent]

OAuthInit ==
    /\ oauthState = [u \in Users |-> NoPending]
    /\ plainSecret = NoValue
    /\ secretStore = Val(SecretK)
    /\ cred \in {[u \in Users |-> IF u = "U1" THEN r ELSE NoRecord] :
                    r \in {NoRecord, CompleteRecord, RecordWithoutCloudId}}
    /\ actionLog = <<>>
    /\ clientConfigured \in BOOLEAN
    /\ pc = [p \in Procs |-> "idle"]
    /\ req = [p \in Procs |-> NoRequest]
    /\ loc = [p \in Procs |-> OAuthLoc]
    /\ hist = [p \in Procs |-> OAuthHist]

OAuthNext ==
    \E p \in SoloProcs :
        \/ LoginUrlInvoke(p)
        \/ LoginUrlGetUrl(p)
        \/ LoginUrlStore(p)
        \/ CallbackInvoke(p)
        \/ CallbackGetUrl(p)
        \/ CallbackToken(p)
        \/ CallbackResources(p)
        \/ CallbackUserInfo(p)
        \/ CallbackStateGet(p)
        \/ CallbackStateDelete(p)
        \/ CallbackStore(p)
        \/ AuthorizedInvoke(p)
        \/ GetSecret(p)
        \/ LoadCred(p)
        \/ ApiCall1(p)
        \/ RefreshFetch(p)
        \/ RefreshGet(p)
        \/ RefreshSet(p)
        \/ ApiCall2(p)
        \/ ReadBody(p)
        \/ LogGet(p)
        \/ LogSet(p)

OAuthSpec == OAuthInit /\ [][OAuthNext]_vars

----------------------------------------------------------------------------
(* Properties of the authorization flow *)

IsCallback(p) == req[p].kind = "callback"
IsLoginUrl(p) == req[p].kind = "loginUrl"

BadCallbackParameters(r) ==
    r.error \/ ~r.code \/ ~r.state.has \/ ~StartsWith(r.state.val, "secure-")

(* C21: a callback that carries an `error` parameter, or lacks `code`, or  *)
(* whose `state` is absent or does not begin with 'secure-', ends at once  *)
(* with a failure response: no token exchange is attempted, and nothing is *)
(* written to or deleted from the store.                                   *)
C21_BadParametersRejected ==
    /\ [](\A p \in SoloProcs :
            (IsCallback(p) /\ BadCallbackParameters(req[p])) =>
                /\ pc[p] = "done"
                /\ hist[p].response.outcome = "failure"
                /\ hist[p].tokenExchanges = 0
                /\ hist[p].stateWrites = 0
                /\ hist[p].stateDeletes = 0
                /\ hist[p].credWrites = 0)
    /\ [][\A p \in SoloProcs :
            (req'[p].kind = "callback" /\ BadCallbackParameters(req'[p])) =>
                /\ cred' = cred
                /\ oauthState' = oauthState]_vars

C21_Witness ==
    \E p \in SoloProcs :
        /\ IsCallback(p)
        /\ pc[p] = "done"
        /\ ~req[p].error
        /\ req[p].code
        /\ req[p].state = Val(<<"forged">>)
        /\ oauthState["U1"].present
        /\ hist[p].response.outcome = "failure"

(* C22: in a callback whose code exchange and identity fetch succeeded the *)
(* credential record is persisted whatever the pending-authorization       *)
(* record says: stored state equal to the callback's, stored state         *)
(* different from it, no stored record.  Only a failing write of the       *)
(* credential record itself keeps it from the store.                       *)
C22_PersistedInEveryStateCase ==
    \A p \in SoloProcs :
        (IsCallback(p) /\ pc[p] = "done" /\ hist[p].exchanged /\ hist[p].identified) =>
            /\ hist[p].stateCase \in {"equal", "different", "none", "unreadable"}
            /\ hist[p].storeFailed \/ hist[p].credWrites = 1
            /\ hist[p].credWrites = 1 =>
                  /\ hist[p].response = SuccessResponse
                  /\ cred[loc[p].accountId] = TokenPayload(req[p].version, loc[p])

C22_Witness ==
    \E p \in SoloProcs :
        /\ IsCallback(p)
        /\ pc[p] = "done"
        /\ hist[p].stateCase = "different"
        /\ hist[p].credWrites = 1
        /\ cred[loc[p].accountId].accessToken = "AT1"
        /\ hist[p].response = SuccessResponse

(* C23: a pending-authorization record exists for a known user from the    *)
(* moment an authorization URL is issued to them, and once a callback for  *)
(* an identity has completed successfully no pending-authorization record  *)
(* of that identity is left in the store.                                  *)
C23_PendingRecordLifecycle ==
    \A p \in SoloProcs :
        /\ (IsLoginUrl(p) /\ pc[p] = "done" /\ hist[p].url.issued
                /\ ~Falsy(req[p].accountId))
              => oauthState[req[p].accountId].present
        /\ (IsCallback(p) /\ pc[p] = "done" /\ hist[p].response = SuccessResponse)
              => ~oauthState[loc[p].accountId].present

IsDispatcher(p) == req[p].kind \in {"create", "update"}

DiscoveryFailed(p) == hist[p].discovery \in DiscoveryOutcomes \ {"site"}

CallbackOf(url, version) ==
    [kind |-> "callback", version |-> version, error |-> FALSE, code |-> TRUE,
     state |-> url.state]

(* C25: every authorization URL getOAuthLoginUrl returns embeds a state    *)
(* token generated in that call; the token is stored as the pending record *)
(* of the user when the user is known; and it is a token the callback's    *)
(* state check recognises.                                                 *)
C25_IssuedStateIsStoredAndRecognised ==
    \A p \in SoloProcs :
        (IsLoginUrl(p) /\ pc[p] = "done" /\ hist[p].url.issued) =>
            /\ hist[p].url.state.has
            /\ hist[p].url.state.val = loc[p].state
            /\ \E t \in StateTimestamps, r \in StateRandoms :
                 loc[p].state = generateStateParameter(t, r)
            /\ ~Falsy(req[p].accountId)
                  => oauthState[req[p].accountId] = Pending(hist[p].url.state.val)
            /\ \A v \in CallbackVersions :
                 CallbackParamError(CallbackOf(hist[p].url, v)) = "none"

(* C26: starting a re-authorization leaves the credential record alone: no *)
(* step of getOAuthLoginUrl deletes or modifies a record, and a record     *)
(* changes only when a callback stores its tokens or a refresh stores its  *)
(* merge.                                                                  *)
C26_ReauthorizationKeepsCredential ==
    [][/\ \A p \in SoloProcs : req'[p].kind = "loginUrl" => cred' = cred
       /\ cred' # cred =>
            \E p \in SoloProcs :
                \/ IsCallback(p) /\ pc[p] = "cbStore"
                \/ IsDispatcher(p) /\ pc[p] = "refreshSet"]_vars

C26_Witness ==
    \E p \in SoloProcs :
        /\ IsLoginUrl(p)
        /\ pc[p] = "done"
        /\ req[p].accountId = "U1"
        /\ hist[p].url.issued
        /\ hist[p].stateWrites = 1
        /\ oauthState["U1"].present
        /\ cred["U1"] = CompleteRecord

(* C27: when a refresh attempt is rejected because the refresh token is    *)
(* invalid (invalid_grant), the credential record of the user is deleted.  *)
C27_InvalidGrantDeletesRecord ==
    \A p \in SoloProcs :
        (pc[p] = "done" /\ hist[p].refreshOutcome = "reauth"
            /\ hist[p].idpBody = "invalid_grant")
          => ~cred[AccountId(p)].present

----------------------------------------------------------------------------
(* jiraApiHelper.js: callJiraApi called on its own, with any arguments *)

ApiMethods == {"POST", "PUT", "DELETE"}

WorklogDataInputs ==
    {[has |-> FALSE, started |-> Absent, timeSpentSeconds |-> Undefined]}
    \cup [has : {TRUE}, started : {Absent, "2024-01-01"},
          timeSpentSeconds : {Undefined, 0, 3600}]

CallJiraApiInputs ==
    [kind : {"callJiraApi"}, method : ApiMethods, worklogData : WorklogDataInputs,
     worklogId : {Absent, "77"}]

NoRequestBody == [started |-> Absent, timeSpentSeconds |-> Undefined]

(* url and requestOptions: the url ends in /<worklogId> for PUT and        *)
(* DELETE; requestBody is the JSON of { started, timeSpentSeconds } for    *)
(* POST and PUT and stays null for DELETE, and `body` exists only for a    *)
(* non-null requestBody                                                    *)
callJiraApiRequestOptions(method, worklogData, worklogId) ==
    [method |-> method,
     worklogId |-> IF method \in {"PUT", "DELETE"} THEN worklogId ELSE Absent,
     hasBody |-> method \in {"POST", "PUT"},
     body |-> IF method \in {"POST", "PUT"}
              THEN [started |-> worklogData.started,
                    timeSpentSeconds |-> worklogData.timeSpentSeconds]
              ELSE NoRequestBody]

CallHist ==
    [apiCalls |-> 0, apiRequests |-> <<>>, error |-> NoErr, status |-> 0, result |-> "none"]

CallInit ==
    /\ oauthState = [u \in Users |-> NoPending]
    /\ plainSecret = NoValue
    /\ secretStore = NoValue
    /\ cred = [u \in Users |-> NoRecord]
    /\ actionLog = <<>>
    /\ clientConfigured = TRUE
    /\ pc = [p \in Procs |-> "idle"]
    /\ req = [p \in Procs |-> NoRequest]
    /\ loc = [p \in Procs |-> InitLoc]
    /\ hist = [p \in Procs |-> CallHist]

(* callJiraApi(method, cloudId, accessToken, issueKey, worklogData,        *)
(* worklogId) up to `await fetch`                                          *)
CallJiraApi(p) ==
    /\ pc[p] = "idle"
    /\ \E r \in CallJiraApiInputs :
        LET argErr == callJiraApiArgError(r.method, r.worklogData.has, r.worklogData.started,
                                          r.worklogData.timeSpentSeconds, r.worklogId)
        IN  /\ req' = [req EXCEPT ![p] = r]
            /\ IF argErr # NoErr
               THEN Goto(p, "done", loc[p],
                         [hist[p] EXCEPT !.error = argErr, !.result = "thrown"])
               ELSE Goto(p, "cjFetch", loc[p],
                         [hist[p] EXCEPT
                             !.apiCalls = @ + 1,
                             !.apiRequests =
                                 Append(@, callJiraApiRequestOptions(r.method, r.worklogData,
                                                                     r.worklogId))])
    /\ UNCHANGED <<oauthState, plainSecret, secretStore, cred, actionLog, clientConfigured>>

(* fetch settles: { status, response } is returned, or the catch throws *)
CallJiraApiFetch(p) ==
    /\ pc[p] = "cjFetch"
    /\ \/ Goto(p, "done", loc[p],
               [hist[p] EXCEPT
                   !.error = Err(<<"Network or unexpected error occurred while calling Jira API.">>),
                   !.result = "thrown"])
       \/ \E s \in WorklogApiStatuses :
            Goto(p, "done", loc[p], [hist[p] EXCEPT !.status = s, !.result = "returned"])
    /\ UNCHANGED <<oauthState, plainSecret, secretStore, cred, actionLog, clientConfigured, req>>

CallNext ==
    \E p \in SoloProcs :
        \/ CallJiraApi(p)
        \/ CallJiraApiFetch(p)

CallSpec == CallInit /\ [][CallNext]_vars

InvalidArgumentErrors ==
    {Err(<<"Worklog ID is required for <method> operation on issue <key>.">>),
     Err(<<"Missing required fields (started, timeSpentSeconds) in worklog data">>)}

(* C28: callJiraApi throws an invalid-argument error and issues no request *)
(* when the method is PUT or DELETE and no worklogId is given, or when the *)
(* method is POST or PUT and started or timeSpentSeconds is missing        *)
(* (timeSpentSeconds 0 is present); otherwise it issues exactly one        *)
(* request, which carries { started, timeSpentSeconds } for POST and PUT   *)
(* and no body for DELETE.                                                 *)
C28_ArgumentValidation ==
    \A p \in SoloProcs :
        req[p].kind = "callJiraApi" =>
            LET r == req[p]
                missingId == r.method \in {"PUT", "DELETE"} /\ r.worklogId = Absent
                missingField ==
                    /\ r.method \in {"POST", "PUT"}
                    /\ \/ ~r.worklogData.has
                       \/ r.worklogData.started = Absent
                       \/ r.worklogData.timeSpentSeconds \notin {0, 3600}
            IN  IF missingId \/ missingField
                THEN /\ pc[p] = "done"
                     /\ hist[p].result = "thrown"
                     /\ hist[p].error \in InvalidArgumentErrors
                     /\ hist[p].apiCalls = 0
                ELSE /\ hist[p].apiCalls = 1
                     /\ hist[p].apiRequests[1].method = r.method
                     /\ r.method = "DELETE" =>
                            /\ ~hist[p].apiRequests[1].hasBody
                            /\ hist[p].apiRequests[1].worklogId = r.worklogId
                     /\ r.method # "DELETE" =>
                            /\ hist[p].apiRequests[1].hasBody
                            /\ hist[p].apiRequests[1].body =
                                 [started |-> r.worklogData.started,
                                  timeSpentSeconds |-> r.worklogData.timeSpentSeconds]

C28_Witness ==
    \E p \in SoloProcs :
        /\ req[p].kind = "callJiraApi"
        /\ req[p].method = "POST"
        /\ req[p].worklogData.timeSpentSeconds = 0
        /\ pc[p] = "done"
        /\ hist[p].apiCalls = 1
        /\ hist[p].apiRequests[1].body.timeSpentSeconds = 0
        /\ hist[p].result = "returned"

----------------------------------------------------------------------------
(* index.js: the two resolvers that generate a new secret, each followed   *)
(* by a webhook whose secret header is validated                           *)

AdminProc == "p2"
WebhookProc == "p1"

(* generateRandomSecret() / generateSecureRandomString(32): characters     *)
(* without whitespace                                                      *)
NewSecrets == {<<"n">>, <<"m">>}

AdminRequests == [kind : {"setNewSecret", "regenerateZapierSecret"}]

AdminLoc == [newSecret |-> <<>>]
AdminHist == [previous |-> NoValue, returned |-> NoValue, result |-> "none"]

SecretInit ==
    /\ oauthState = [u \in Users |-> NoPending]
    /\ plainSecret \in {NoValue, Val(SecretK)}
    /\ secretStore \in {NoValue, Val(SecretK)}
    /\ cred = [u \in Users |-> NoRecord]
    /\ actionLog = <<>>
    /\ clientConfigured = TRUE
    /\ pc = [p \in Procs |-> "idle"]
    /\ req = [p \in Procs |-> NoRequest]
    /\ loc = [p \in Procs |-> IF p = AdminProc THEN AdminLoc ELSE InitLoc]
    /\ hist = [p \in Procs |-> IF p = AdminProc THEN AdminHist ELSE InitHist]

(* the resolver generates newSecret and runs to its storage call *)
AdminInvoke(p) ==
    /\ p = AdminProc
    /\ pc[p] = "idle"
    /\ \E r \in AdminRequests, s \in NewSecrets :
        /\ req' = [req EXCEPT ![p] = r]
        /\ Goto(p, IF r.kind = "setNewSecret" THEN "snStore" ELSE "rgStore",
                [loc[p] EXCEPT !.newSecret = s],
                [hist[p] EXCEPT !.previous = secretStore])
    /\ UNCHANGED <<oauthState, plainSecret, secretStore, cred, actionLog, clientConfigured>>

(* setNewSecret: `await storage.set('zapier-secret', newSecret)` settles;  *)
(* return newSecret                                                        *)
SetNewSecretStore(p) ==
    /\ pc[p] = "snStore"
    /\ \/ /\ Goto(p, "done", loc[p], [hist[p] EXCEPT !.result = "thrown"])
          /\ UNCHANGED plainSecret
       \/ /\ plainSecret' = Val(loc[p].newSecret)
          /\ Goto(p, "done", loc[p],
                  [hist[p] EXCEPT !.returned = Val(loc[p].newSecret), !.result = "returned"])
    /\ UNCHANGED <<oauthState, secretStore, cred, actionLog, clientConfigured, req>>

(* regenerateZapierSecret: `await storage.setSecret('zapierSharedSecret',  *)
(* newSecret)` settles; return { newSecret }                               *)
RegenerateSecretStore(p) ==
    /\ pc[p] = "rgStore"
    /\ \/ /\ Goto(p, "done", loc[p], [hist[p] EXCEPT !.result = "thrown"])
          /\ UNCHANGED secretStore
       \/ /\ secretStore' = Val(loc[p].newSecret)
          /\ Goto(p, "done", loc[p],
                  [hist[p] EXCEPT !.returned = Val(loc[p].newSecret), !.result = "returned"])
    /\ UNCHANGED <<oauthState, plainSecret, cred, actionLog, clientConfigured, req>>

(* webhooks that present the old secret, a new one, or none *)
SecretRequests ==
    [kind : {"create", "update"},
     headers : [lower : {NoValue, Val(SecretK)} \cup {Val(s) : s \in NewSecrets},
                upper : {NoValue}],
     body : {[kind |-> "object", userId |-> "U1", issueKey |-> "COM-1",
              started |-> "2024-01-01", timeSpentSeconds |-> 3600, worklogId |-> "77"]}]

(* a webhook arrives after the resolver has ended *)
SecretInvoke(p) ==
    /\ p = WebhookProc
    /\ pc[p] = "idle"
    /\ pc[AdminProc] = "done"
    /\ \E r \in SecretRequests :
        /\ req' = [req EXCEPT ![p] = r]
        /\ pc' = [pc EXCEPT ![p] = "getSecret"]
    /\ UNCHANGED <<oauthState, plainSecret, secretStore, cred, actionLog, clientConfigured, loc, hist>>

SecretNext ==
    \/ AdminInvoke(AdminProc)
    \/ SetNewSecretStore(AdminProc)
    \/ RegenerateSecretStore(AdminProc)
    \/ SecretInvoke(WebhookProc)
    \/ GetSecret(WebhookProc)
    \/ LoadCred(WebhookProc)
    \/ LogGet(WebhookProc)
    \/ LogSet(WebhookProc)

SecretSpec == SecretInit /\ [][SecretNext]_vars

(* C30: there is one shared secret: once a regeneration (setNewSecret or   *)
(* regenerateZapierSecret) has returned S, validateZapierSecret accepts a  *)
(* header carrying S and rejects one carrying the secret that was valid    *)
(* before.                                                                 *)
C30_RegeneratedSecretReplacesOld ==
    (/\ pc[AdminProc] = "done"
     /\ hist[AdminProc].result = "returned"
     /\ hist[WebhookProc].secretReads = 1
     /\ hist[WebhookProc].secretError
            # Err(<<"Server configuration error: Could not retrieve shared secret.">>))
    => LET S == hist[AdminProc].returned.val
           old == hist[AdminProc].previous
           received == HeaderValue(req[WebhookProc].headers)
       IN  /\ (received.has /\ received.val = S)
                => hist[WebhookProc].secretError = NoErr
           /\ (received.has /\ old.has /\ received.val = old.val /\ old.val # S)
                => hist[WebhookProc].secretError = Err(<<"Invalid secret.">>)

----------------------------------------------------------------------------
(* Two invocations of the same dispatcher, one after the other, for two    *)
(* users with different tokens.  The client credentials are not set, so a  *)
(* refresh ends before its token request and the refresh steps never run.  *)

OtherRecord ==
    [present |-> TRUE, accessToken |-> "AT9", refreshToken |-> "RT9",
     cloudId |-> "cloud-1", userInfo |-> "profile-U2", expiresAt |-> "at-authorization",
     timestamp |-> "at-authorization"]

PairRequests ==
    [kind : {"create", "update"},
     headers : {[lower |-> Val(SecretK), upper |-> NoValue]},
     body : {[kind |-> "object", userId |-> u, issueKey |-> "COM-1",
              started |-> "2024-01-01", timeSpentSeconds |-> 3600, worklogId |-> "77"] :
                u \in Users}]

PairInit ==
    /\ oauthState = [u \in Users |-> NoPending]
    /\ plainSecret = NoValue
    /\ secretStore = Val(SecretK)
    /\ cred = [u \in Users |-> IF u = "U1" THEN CompleteRecord ELSE OtherRecord]
    /\ actionLog = <<>>
    /\ clientConfigured = FALSE
    /\ pc = [p \in Procs |-> "idle"]
    /\ req = [p \in Procs |-> NoRequest]
    /\ loc = [p \in Procs |-> InitLoc]
    /\ hist = [p \in Procs |-> InitHist]

(* the first invocation is for U1; the second starts when the first has    *)
(* ended, on the same trigger, for U2                                      *)
PairInvoke(p) ==
    /\ pc[p] = "idle"
    /\ \E r \in PairRequests :
        /\ \/ p = "p1" /\ r.body.userId = "U1"
           \/ p = "p2" /\ pc["p1"] = "done" /\ r.kind = req["p1"].kind
                /\ r.body.userId = "U2"
        /\ req' = [req EXCEPT ![p] = r]
        /\ pc' = [pc EXCEPT ![p] = "getSecret"]
    /\ UNCHANGED <<oauthState, plainSecret, secretStore, cred, actionLog, clientConfigured, loc, hist>>

PairNext ==
    \E p \in Procs :
        \/ PairInvoke(p)
        \/ GetSecret(p)
        \/ LoadCred(p)
        \/ ApiCall1(p)
        \/ ReadBody(p)
        \/ LogGet(p)
        \/ LogSet(p)

PairSpec == PairInit /\ [][PairNext]_vars

(* C29: what a create or update dispatcher returns is its outputKey and    *)
(* nothing else: two invocations that end with the same outputKey return   *)
(* identical results, whatever the exception messages, upstream bodies,    *)
(* account ids and tokens of the two were.                                 *)
C29_ResultIsOutputKeyAlone ==
    \A p, q \in Procs :
        (/\ pc[p] = "done" /\ hist[p].result = "returned"
         /\ pc[q] = "done" /\ hist[q].result = "returned"
         /\ hist[p].final = hist[q].final)
        => hist[p].returnValue = hist[q].returnValue

C29_Witness ==
    /\ pc["p1"] = "done" /\ hist["p1"].result = "returned"
    /\ pc["p2"] = "done" /\ hist["p2"].result = "returned"
    /\ hist["p1"].final = hist["p2"].final
    /\ AccountId("p1") # AccountId("p2")
    /\ loc["p1"].currentAccessToken # loc["p2"].currentAccessToken
    /\ loc["p1"].logDetails.message # loc["p2"].logDetails.message
    /\ hist["p1"].apiStatuses # hist["p2"].apiStatuses

----------------------------------------------------------------------------
(* refreshAccessToken called on its own: the exported function is entered  *)
(* with any refresh token argument, against any stored record, from a      *)
(* caller that stands where callJiraApiWithRetry stands after a 401        *)

RefreshTokenInputs == {Absent, "RT0"}

RefreshCallers ==
    [kind : {"create", "update"},
     headers : {[lower |-> Val(SecretK), upper |-> NoValue]},
     body : {[kind |-> "object", userId |-> "U1", issueKey |-> "COM-1",
              started |-> "2024-01-01", timeSpentSeconds |-> 3600, worklogId |-> "77"]}]

RefreshInit ==
    /\ oauthState = [u \in Users |-> NoPending]
    /\ plainSecret = NoValue
    /\ secretStore = Val(SecretK)
    /\ cred \in {[u \in Users |-> IF u = "U1" THEN r ELSE NoRecord] : r \in InitialRecords}
    /\ actionLog = <<>>
    /\ clientConfigured \in BOOLEAN
    /\ pc = [p \in Procs |-> "idle"]
    /\ req \in {[p \in Procs |-> r] : r \in RefreshCallers}
    /\ loc = [p \in Procs |-> InitLoc]
    /\ hist = [p \in Procs |-> InitHist]

(* refreshAccessToken(userId, refreshToken) up to its fetch *)
RefreshInvoke(p) ==
    /\ pc[p] = "idle"
    /\ \E refreshToken \in RefreshTokenInputs :
        BeginRefresh(p, req[p].body.userId,
            [loc[p] EXCEPT !.payloadParsed = TRUE,
                           !.logDetails = InitialLogDetails(req[p].kind, req[p].body),
                           !.userData = [CompleteRecord EXCEPT !.refreshToken = refreshToken],
                           !.currentAccessToken = "AT0",
                           !.apiResult = [call |-> 1, status |-> 401]],
            hist[p])
    /\ UNCHANGED <<oauthState, plainSecret, secretStore, cred, actionLog, clientConfigured, req>>

RefreshNext ==
    \E p \in SoloProcs :
        \/ RefreshInvoke(p)
        \/ RefreshFetch(p)
        \/ RefreshGet(p)
        \/ RefreshSet(p)
        \/ ApiCall2(p)
        \/ ReadBody(p)
        \/ LogGet(p)
        \/ LogSet(p)

RefreshSpec == RefreshInit /\ [][RefreshNext]_vars

RefreshFailed(p) == hist[p].refreshOutcome \in {"reauth", "generic"}

(* C31: every failing refreshAccessToken call leaves the credential store  *)
(* unchanged and makes at most one token-exchange request: with the client *)
(* id/secret or the refresh token absent it fails before contacting the    *)
(* provider; on a non-success response, a transport failure or a success   *)
(* response without an access token it fails without writing the store.    *)
(* The store changes only in the step that completes a successful refresh. *)
C31_FailedRefreshWritesNothing ==
    /\ [](\A p \in Procs :
            RefreshFailed(p)
            => /\ hist[p].credWrites = 0
               /\ hist[p].tokenRequests <= 1
               /\ (~clientConfigured \/ loc[p].userData.refreshToken = Absent)
                    => hist[p].tokenRequests = 0
               /\ hist[p].tokenRequests = 0
                    => (~clientConfigured \/ loc[p].userData.refreshToken = Absent)
               /\ (hist[p].idpStatus # 200 /\ hist[p].tokenRequests = 1)
                    => hist[p].credReads = 0
               /\ (hist[p].idpStatus = 200 /\ loc[p].newAccessToken = Absent)
                    => hist[p].credReads = 0)
    /\ [][cred' # cred
          => \E p \in Procs : /\ hist[p].refreshOutcome = "none"
                              /\ hist'[p].refreshOutcome = "ok"
                              /\ ~RefreshFailed(p)']_vars

C31_Witness ==
    \E p \in Procs :
        /\ RefreshFailed(p)
        /\ pc[p] = "done"
        /\ clientConfigured
        /\ loc[p].userData.refreshToken = Absent
        /\ hist[p].tokenRequests = 0
        /\ cred["U1"] = CompleteRecord

----------------------------------------------------------------------------
(* Concurrent invocations of callJiraApiWithRetry for one user: each web   *)
(* trigger invocation runs on its own and the two interleave at every      *)
(* await.  An invocation is followed until callJiraApiWithRetry returns or *)
(* throws; the secret and the payload are valid.                           *)

RaceInit ==
    /\ oauthState = [u \in Users |-> NoPending]
    /\ plainSecret = NoValue
    /\ secretStore = Val(SecretK)
    /\ cred = [u \in Users |-> IF u = "U1" THEN CompleteRecord ELSE NoRecord]
    /\ actionLog = <<>>
    /\ clientConfigured = TRUE
    /\ pc = [p \in Procs |-> "idle"]
    /\ req \in {[p \in Procs |-> r] : r \in RefreshCallers}
    /\ loc = [p \in Procs |-> InitLoc]
    /\ hist = [p \in Procs |-> InitHist]

(* callJiraApiWithRetry(accountId, ...) up to `await storage.get` *)
RaceInvoke(p) ==
    /\ pc[p] = "idle"
    /\ Goto(p, "loadCred",
            [loc[p] EXCEPT !.payloadParsed = TRUE,
                           !.logDetails = InitialLogDetails(req[p].kind, req[p].body)],
            [hist[p] EXCEPT !.secretAccepted = TRUE, !.bodyParsed = TRUE])
    /\ UNCHANGED <<oauthState, plainSecret, secretStore, cred, actionLog, clientConfigured, req>>

RaceNext ==
    \E p \in Procs :
        \/ RaceInvoke(p)
        \/ LoadCred(p)
        \/ ApiCall1(p)
        \/ RefreshFetch(p)
        \/ RefreshGet(p)
        \/ RefreshSet(p)
        \/ ApiCall2(p)

RaceSpec == RaceInit /\ [][RaceNext]_vars

FailedWithReauth(p) ==
    /\ hist[p].orchestrator = "threw"
    /\ IsReauthRequired(hist[p].orchestratorError)
    /\ hist[p].refreshCalls = 1

(* C32: with two concurrent callJiraApiWithRetry invocations for the same  *)
(* user, an invocation whose refresh ends in re-authentication-required    *)
(* presented, in its token request, the refresh token that the store held  *)
(* when the request was made; it never presented one it loaded earlier and *)
(* that another invocation has since rotated and replaced in the store.    *)
C32_RefreshPresentsStoredToken ==
    \A p \in Procs :
        FailedWithReauth(p) => hist[p].refreshTokenSent = hist[p].refreshTokenStored

(* C33: once every one of the concurrent refreshes for the user has        *)
(* succeeded and stored its result, the refreshToken in the store is the   *)
(* one the provider issued last.                                           *)
C33_StoreHoldsLatestRefreshToken ==
    (\A p \in Procs : hist[p].refreshOutcome = "ok" /\ loc[p].newRefreshToken # Absent)
    => \E p \in Procs :
         /\ hist[p].issue = TokensIssued
         /\ cred[AccountId(p)].refreshToken = loc[p].newRefreshToken

----------------------------------------------------------------------------
(* Concurrent dispatcher invocations at their logAction call: each         *)
(* invocation calls the logger once, against a log that starts empty, and  *)
(* the calls interleave at the logger's two awaits                         *)

LogRaceInit ==
    /\ oauthState = [u \in Users |-> NoPending]
    /\ plainSecret = NoValue
    /\ secretStore = Val(SecretK)
    /\ cred = [u \in Users |-> IF u = "U1" THEN CompleteRecord ELSE NoRecord]
    /\ actionLog = <<>>
    /\ clientConfigured = TRUE
    /\ pc = [p \in Procs |-> "idle"]
    /\ req \in {[p \in Procs |-> r] : r \in RefreshCallers}
    /\ loc = [p \in Procs |-> InitLoc]
    /\ hist = [p \in Procs |-> InitHist]

(* await logAction(logDetails), up to `await storage.get(LOG_STORAGE_KEY)` *)
LogRaceInvoke(p) ==
    /\ pc[p] = "idle"
    /\ \E d \in LogDetailsInputs :
         Goto(p, "logGet",
              [loc[p] EXCEPT !.outputKey = IF d.success THEN SuccessKey(req[p].kind)
                                           ELSE "error-bad-request",
                             !.logDetails = d, !.logEntry = LogEntry(d)],
              [hist[p] EXCEPT !.logCalls = @ + 1])
    /\ UNCHANGED <<oauthState, plainSecret, secretStore, cred, actionLog, clientConfigured, req>>

LogRaceNext ==
    \E p \in Procs :
        \/ LogRaceInvoke(p)
        \/ LogGet(p)
        \/ LogSet(p)

LogRaceSpec == LogRaceInit /\ [][LogRaceNext]_vars

(* C34: when the concurrent invocations have all completed against a log   *)
(* that was empty, each with its log write succeeding, the stored log      *)
(* holds one entry per invocation.                                         *)
C34_NoLogEntryLost ==
    (\A p \in Procs : pc[p] = "done" /\ hist[p].logWrites = 1)
    => /\ Len(actionLog) = Cardinality(Procs)
       /\ \A p \in Procs : \E i \in 1..Len(actionLog) : actionLog[i] = loc[p].logEntry

----------------------------------------------------------------------------
(* index.js: getUserAuthStatus, as the resolver and as the helper of       *)
(* getAdminPageContext, with refreshOAuthToken of oauth.js.  The two       *)
(* differ in the catch block around the refresh and in what follows a      *)
(* successful refresh.  Whether the stored expiresAt lies before           *)
(* now + 60 s is open: the call can come at any time.                      *)

StatusVersions == {"resolver", "helper"}

StatusRequests == [kind : {"authStatus"}, version : StatusVersions, accountId : {Absent, "U1"}]

(* { authenticated, error } *)
StatusResponse(authenticated, error) == [authenticated |-> authenticated, error |-> error]

StatusLoc ==
    [tokenData |-> NoRecord, newAccessToken |-> Absent, newRefreshToken |-> Absent,
     storedToken |-> NoRecord, afterDelete |-> Absent]

StatusHist ==
    [credReads |-> 0, credWrites |-> 0, credDeletes |-> 0, tokenRequests |-> 0,
     idpStatus |-> 0, idpBody |-> "none", refreshFailure |-> "none",
     refreshError |-> NoErr, refreshTokenSent |-> Absent, issue |-> 0,
     deleteFailed |-> FALSE, result |-> "none",
     response |-> StatusResponse(FALSE, "none")]

StatusReturn(p, l, h, response) ==
    Goto(p, "done", l, [h EXCEPT !.result = "returned", !.response = response])

(* the catch around refreshOAuthToken: the resolver deletes the record     *)
(* whatever the error; the helper deletes it for a re-authentication error *)
StatusCatchDeletes(version, error) ==
    version = "resolver"
    \/ error.requiresReAuthentication \/ Includes(error.msg, "re-authenticate")

(* an error leaves refreshOAuthToken, or the helper's second storage.get   *)
StatusRefreshFails(p, l, h, failure, error) ==
    LET h1 == [h EXCEPT !.refreshFailure = failure, !.refreshError = error]
    IN  IF StatusCatchDeletes(req[p].version, error)
        THEN Goto(p, "stDelete",
                  [l EXCEPT !.afterDelete =
                       IF req[p].version = "resolver"
                       THEN "Session expired, refresh failed"
                       ELSE "Session expired, re-authentication required"],
                  h1)
        ELSE StatusReturn(p, l, h1, StatusResponse(FALSE, "Session expired, refresh failed"))

(* refreshOAuthToken: updatedToken *)
UpdatedToken(storedToken, accessToken, refreshToken) ==
    [storedToken EXCEPT !.accessToken = accessToken,
                        !.refreshToken = IF Falsy(refreshToken) THEN @ ELSE refreshToken,
                        !.expiresAt = "at-refresh"]

(* getUserAuthStatus(req) up to `await storage.get(tokenStorageKey)` *)
StatusInvoke(p) ==
    /\ pc[p] = "idle"
    /\ \E r \in StatusRequests :
        /\ req' = [req EXCEPT ![p] = r]
        /\ IF Falsy(r.accountId)
           THEN StatusReturn(p, StatusLoc, StatusHist,
                             StatusResponse(FALSE, "User context not found"))
           ELSE Goto(p, "stGet", StatusLoc, StatusHist)
    /\ UNCHANGED <<oauthState, plainSecret, secretStore, cred, actionLog, clientConfigured>>

(* tokenData is read and tested; refreshOAuthToken runs up to its fetch *)
StatusGet(p) ==
    /\ pc[p] = "stGet"
    /\ \E fails \in BOOLEAN, expired \in BOOLEAN :
        LET h == [hist[p] EXCEPT !.credReads = @ + 1]
            tokenData == cred[req[p].accountId]
            l == [loc[p] EXCEPT !.tokenData = tokenData]
        IN  IF fails THEN StatusReturn(p, loc[p], h, StatusResponse(FALSE, "Storage access error"))
            ELSE IF ~tokenData.present \/ Falsy(tokenData.accessToken)
                    \/ Falsy(tokenData.expiresAt)
            THEN StatusReturn(p, l, h, StatusResponse(FALSE, Absent))
            ELSE IF ~expired THEN StatusReturn(p, l, h, StatusResponse(TRUE, Absent))
            ELSE IF Falsy(tokenData.refreshToken)
            THEN Goto(p, "stDelete", [l EXCEPT !.afterDelete = "Session expired"], h)
            ELSE IF ~clientConfigured
            THEN StatusRefreshFails(p, l, h, "configuration",
                                    Err(<<"Missing OAuth client credentials">>))
            ELSE Goto(p, "stFetch", l,
                      [h EXCEPT !.refreshTokenSent = tokenData.refreshToken])
    /\ UNCHANGED <<oauthState, plainSecret, secretStore, cred, actionLog, clientConfigured, req>>

(* refreshOAuthToken: the token request settles and its body is read *)
StatusFetch(p) ==
    /\ pc[p] = "stFetch"
    /\ LET h == [hist[p] EXCEPT !.tokenRequests = @ + 1]
       IN  \/ StatusRefreshFails(p, loc[p], [h EXCEPT !.idpBody = "no response"],
                                 "network", Err(<<"<fetch failure>">>))
           \/ \E s \in IdpErrorStatuses, b \in IdpErrorBodies :
                StatusRefreshFails(p, loc[p], [h EXCEPT !.idpStatus = s, !.idpBody = b],
                                   "provider",
                                   Err(<<"Token refresh failed: <status> - <errorText>">>))
           \/ \E at \in NewAccessTokens, rt \in {Absent, IssuedRefreshToken(TokensIssued + 1)} :
                LET h1 == [h EXCEPT !.idpStatus = 200, !.idpBody = "token data",
                                    !.issue = TokensIssued + 1]
                IN  IF Falsy(at)
                    THEN StatusRefreshFails(p, loc[p], h1, "protocol",
                                            Err(<<"Invalid token refresh response">>))
                    ELSE Goto(p, "stRefreshGet",
                              [loc[p] EXCEPT !.newAccessToken = at, !.newRefreshToken = rt], h1)
    /\ UNCHANGED <<oauthState, plainSecret, secretStore, cred, actionLog, clientConfigured, req>>

(* refreshOAuthToken: storedToken = await storage.get(...) *)
StatusRefreshGet(p) ==
    /\ pc[p] = "stRefreshGet"
    /\ LET h == [hist[p] EXCEPT !.credReads = @ + 1]
           storedToken == cred[req[p].accountId]
       IN  \/ StatusRefreshFails(p, loc[p], h, "storage", Err(<<"<storage failure>">>))
           \/ IF ~storedToken.present
              THEN StatusRefreshFails(p, loc[p], h, "no record",
                                      Err(<<"No existing token found to update">>))
              ELSE Goto(p, "stRefreshSet", [loc[p] EXCEPT !.storedToken = storedToken], h)
    /\ UNCHANGED <<oauthState, plainSecret, secretStore, cred, actionLog, clientConfigured, req>>

(* refreshOAuthToken: await storage.set(...); return updatedToken; the     *)
(* resolver returns, the helper goes on to read the record again           *)
StatusRefreshSet(p) ==
    /\ pc[p] = "stRefreshSet"
    /\ \/ /\ StatusRefreshFails(p, loc[p], hist[p], "storage", Err(<<"<storage failure>">>))
          /\ UNCHANGED cred
       \/ /\ cred' = [cred EXCEPT ![req[p].accountId] =
                        UpdatedToken(loc[p].storedToken, loc[p].newAccessToken,
                                     loc[p].newRefreshToken)]
          /\ LET h == [hist[p] EXCEPT !.credWrites = @ + 1]
             IN  IF req[p].version = "resolver"
                 THEN StatusReturn(p, loc[p], h, StatusResponse(TRUE, Absent))
                 ELSE Goto(p, "stReGet", loc[p], h)
    /\ UNCHANGED <<oauthState, plainSecret, secretStore, actionLog, clientConfigured, req>>

(* the helper: refreshedTokenData = await storage.get(tokenStorageKey) *)
StatusReGet(p) ==
    /\ pc[p] = "stReGet"
    /\ LET h == [hist[p] EXCEPT !.credReads = @ + 1]
       IN  \/ StatusRefreshFails(p, loc[p], h, "storage", Err(<<"<storage failure>">>))
           \/ StatusReturn(p, loc[p], h, StatusResponse(TRUE, Absent))
    /\ UNCHANGED <<oauthState, plainSecret, secretStore, cred, actionLog, clientConfigured, req>>

(* await storage.delete(tokenStorageKey); a failure reaches the outer catch *)
StatusDelete(p) ==
    /\ pc[p] = "stDelete"
    /\ \/ /\ StatusReturn(p, loc[p], [hist[p] EXCEPT !.deleteFailed = TRUE],
                          StatusResponse(FALSE, "Storage access error"))
          /\ UNCHANGED cred
       \/ /\ cred' = [cred EXCEPT ![req[p].accountId] = NoRecord]
          /\ StatusReturn(p, loc[p], [hist[p] EXCEPT !.credDeletes = @ + 1],
                          StatusResponse(FALSE, loc[p].afterDelete))
    /\ UNCHANGED <<oauthState, plainSecret, secretStore, actionLog, clientConfigured, req>>

StatusInit ==
    /\ oauthState = [u \in Users |-> NoPending]
    /\ plainSecret = NoValue
    /\ secretStore = Val(SecretK)
    /\ cred \in {[u \in Users |-> IF u = "U1" THEN r ELSE NoRecord] : r \in InitialRecords}
    /\ actionLog = <<>>
    /\ clientConfigured \in BOOLEAN
    /\ pc = [p \in Procs |-> "idle"]
    /\ req = [p \in Procs |-> NoRequest]
    /\ loc = [p \in Procs |-> StatusLoc]
    /\ hist = [p \in Procs |-> StatusHist]

StatusNext ==
    \E p \in SoloProcs :
        \/ StatusInvoke(p)
        \/ StatusGet(p)
        \/ StatusFetch(p)
        \/ StatusRefreshGet(p)
        \/ StatusRefreshSet(p)
        \/ StatusReGet(p)
        \/ StatusDelete(p)

StatusSpec == StatusInit /\ [][StatusNext]_vars

IsStatus(p) == req[p].kind = "authStatus"

(* the refresh token was refused as invalid or expired *)
RefreshTokenRefused(p) ==
    /\ hist[p].refreshFailure = "provider"
    /\ hist[p].idpStatus \in {400, 401, 403}
    /\ hist[p].idpBody = "invalid_grant"

(* C38: getUserAuthStatus does not delete the user's credential record     *)
(* when the refresh fails for a reason other than an invalid or expired    *)
(* refresh token (network failure, provider 5xx, missing client            *)
(* configuration, ...): after such a failure the stored record, refresh    *)
(* token included, is as it was read.                                      *)
C38_OtherRefreshFailureKeepsRecord ==
    \A p \in Procs :
        (/\ IsStatus(p) /\ pc[p] = "done"
         /\ hist[p].refreshFailure # "none"
         /\ ~RefreshTokenRefused(p))
        => /\ hist[p].credDeletes = 0
           /\ (hist[p].credWrites = 0 => cred[req[p].accountId] = loc[p].tokenData)
           /\ cred[req[p].accountId].present

----------------------------------------------------------------------------
(* A webhook invocation of callJiraApiWithRetry and a getUserAuthStatus    *)
(* call for the same user, interleaved at every await; the stored record   *)
(* is complete when both start                                             *)

GuardInit ==
    /\ oauthState = [u \in Users |-> NoPending]
    /\ plainSecret = NoValue
    /\ secretStore = Val(SecretK)
    /\ cred = [u \in Users |-> IF u = "U1" THEN CompleteRecord ELSE NoRecord]
    /\ actionLog = <<>>
    /\ clientConfigured = TRUE
    /\ pc = [p \in Procs |-> "idle"]
    /\ req \in {[p \in Procs |-> IF p = WebhookProc THEN r ELSE NoRequest] : r \in RefreshCallers}
    /\ loc = [p \in Procs |-> IF p = WebhookProc THEN InitLoc ELSE StatusLoc]
    /\ hist = [p \in Procs |-> IF p = WebhookProc THEN InitHist ELSE StatusHist]

GuardNext ==
    \/ RaceInvoke(WebhookProc)
    \/ LoadCred(WebhookProc)
    \/ ApiCall1(WebhookProc)
    \/ RefreshFetch(WebhookProc)
    \/ RefreshGet(WebhookProc)
    \/ RefreshSet(WebhookProc)
    \/ ApiCall2(WebhookProc)
    \/ StatusInvoke(AdminProc)
    \/ StatusGet(AdminProc)
    \/ StatusFetch(AdminProc)
    \/ StatusRefreshGet(AdminProc)
    \/ StatusRefreshSet(AdminProc)
    \/ StatusReGet(AdminProc)
    \/ StatusDelete(AdminProc)

GuardSpec == GuardInit /\ [][GuardNext]_vars

(* C35: a refresh of an invocation that loaded a complete record never     *)
(* writes a credential record without cloudId, also when another           *)
(* operation deleted the record between the orchestrator's load and the    *)
(* refresher's read of the store.                                          *)
C35_RefreshWritesNoPartialRecord ==
    [][\A p \in Procs :
          (/\ IsDispatcher(p)
           /\ ~CredentialIncomplete(loc[p].userData)
           /\ hist'[p].credWrites = hist[p].credWrites + 1)
          => /\ cred'[AccountId(p)].present
             /\ cred'[AccountId(p)].cloudId # Absent]_vars

----------------------------------------------------------------------------
(* The create and update dispatchers, one invocation (Spec) *)

SuccessKeys == {"success-created", "success-updated"}

(* C36: in every dispatcher invocation the log entry's success flag is     *)
(* true if and only if the outputKey is the success key of the verb, at    *)
(* the logger call and at the return; an entry with success true is built  *)
(* and stored only after callJiraApiWithRetry has returned a final         *)
(* upstream response with a 2xx status.                                    *)
C36_SuccessFlagMatchesOutputKey ==
    /\ \A p \in Procs :
        hist[p].logCalls >= 1
        => /\ hist[p].logCalls = 1
           /\ loc[p].logEntry.success <=> loc[p].outputKey \in SuccessKeys
           /\ loc[p].logEntry.success
                <=> loc[p].outputKey = (IF req[p].kind = "create" THEN "success-created"
                                        ELSE "success-updated")
           /\ loc[p].logEntry.success
                => /\ hist[p].orchestrator = "returned"
                   /\ IsOk(hist[p].orchestratorResult.status)
                   /\ hist[p].apiStatuses[Len(hist[p].apiStatuses)]
                        = hist[p].orchestratorResult.status
           /\ (pc[p] = "done" /\ hist[p].result = "returned")
                => (hist[p].returnValue.outputKey \in SuccessKeys <=> loc[p].logEntry.success)
    /\ \A i \in 1..Len(actionLog) :
         \E p \in Procs : hist[p].logWrites = 1 /\ actionLog[i] = loc[p].logEntry

C36_Witness ==
    \E p \in Procs :
        /\ pc[p] = "done"
        /\ hist[p].apiStatuses = <<401, 201>>
        /\ hist[p].returnValue.outputKey = "success-created"
        /\ Len(actionLog) = 1
        /\ actionLog[1].success

----------------------------------------------------------------------------
(* The action logger on its own (LogSpec) *)

(* C37: logAction never alters or reorders the entries already stored:     *)
(* after a call that wrote, the entries that follow the new first entry    *)
(* are the previous entries in their previous order, all of them when the  *)
(* log was not full and all but the oldest (last) one when it was full.    *)
C37_StoredEntriesKeptInOrder ==
    [][\A p \in Procs :
          hist'[p].logWrites = hist[p].logWrites + 1
          => LET previous == actionLog
                 kept == IF Len(previous) = MAX_LOG_ENTRIES
                         THEN SubSeq(previous, 1, MAX_LOG_ENTRIES - 1)
                         ELSE previous
             IN  /\ Len(actionLog') >= 1
                 /\ Tail(actionLog') = kept]_vars

C37_Witness ==
    \E p \in Procs :
        /\ pc[p] = "done"
        /\ hist[p].logWrites = 1
        /\ Len(loc[p].currentLogs) = MAX_LOG_ENTRIES
        /\ loc[p].currentLogs[MAX_LOG_ENTRIES] = StoredEntry(MAX_LOG_ENTRIES)
        /\ Len(actionLog) = MAX_LOG_ENTRIES
        /\ actionLog[2] = StoredEntry(1)
        /\ actionLog[MAX_LOG_ENTRIES] = StoredEntry(MAX_LOG_ENTRIES - 1)
        /\ \A i \in 1..Len(actionLog) : actionLog[i] # StoredEntry(MAX_LOG_ENTRIES)

----------------------------------------------------------------------------
(* One dispatcher invocation whose awaited calls all settle: every step of *)
(* an invocation is the settling (return or failure) of the call it        *)
(* awaits, so a step that stays possible is eventually taken               *)

LiveRequests ==
    {r \in Requests : r.headers.upper = NoValue /\ r.headers.lower \in {Val(SecretK), Val(HeaderBad)}}

LiveInit ==
    /\ oauthState = [u \in Users |-> NoPending]
    /\ plainSecret = NoValue
    /\ secretStore = Val(SecretK)
    /\ cred \in {[u \in Users |-> IF u = "U1" THEN r ELSE NoRecord] : r \in InitialRecords}
    /\ actionLog = <<>>
    /\ clientConfigured \in BOOLEAN
    /\ pc = [p \in Procs |-> "idle"]
    /\ req = [p \in Procs |-> NoRequest]
    /\ loc = [p \in Procs |-> InitLoc]
    /\ hist = [p \in Procs |-> InitHist]

(* the web trigger invokes handler(req) *)
LiveInvoke(p) ==
    /\ pc[p] = "idle"
    /\ \E r \in LiveRequests :
        /\ req' = [req EXCEPT ![p] = r]
        /\ pc' = [pc EXCEPT ![p] = "getSecret"]
    /\ UNCHANGED <<oauthState, plainSecret, secretStore, cred, actionLog, clientConfigured, loc, hist>>

Step(p) ==
    \/ GetSecret(p)
    \/ LoadCred(p)
    \/ ApiCall1(p)
    \/ RefreshFetch(p)
    \/ RefreshGet(p)
    \/ RefreshSet(p)
    \/ ApiCall2(p)
    \/ ReadBody(p)
    \/ LogGet(p)
    \/ LogSet(p)

LiveNext == \E p \in SoloProcs : LiveInvoke(p) \/ Step(p)

FairSpec == LiveInit /\ [][LiveNext]_vars /\ \A p \in SoloProcs : WF_vars(Step(p))

(* an invocation has ended, in whatever way *)
Ended(p) == pc[p] = "done"

(* C39: provided every awaited call settles, every dispatcher invocation   *)
(* eventually terminates with an outputKey of its trigger, having made one *)
(* secret read, at most one credential load, at most two upstream calls,   *)
(* at most one refresh (one token request, one read and one write of the   *)
(* record) and at most one log write.                                      *)
C39_TerminatesWithOutputKey ==
    /\ [](\A p \in Procs :
            /\ hist[p].secretReads <= 1
            /\ hist[p].credReads <= 1 + hist[p].refreshCalls
            /\ hist[p].apiCalls <= 2
            /\ hist[p].refreshCalls <= 1
            /\ hist[p].tokenRequests <= 1
            /\ hist[p].credWrites <= 1
            /\ hist[p].logCalls <= 1
            /\ hist[p].logWrites <= 1
            /\ (Ended(p) => hist[p].secretReads = 1))
    /\ \A p \in SoloProcs :
         (pc[p] = "getSecret")
         ~> (/\ Ended(p)
             /\ hist[p].result = "returned"
             /\ hist[p].returnValue.outputKey \in TriggerOutputs(req[p].kind))
====
